---- MODULE Spec2Model ----
(***************************************************************************)
(* Retirement calculator: the numeric kernel (CalcUtilities), the          *)
(* projection engine built on it (SavingsCalculator), the contribution     *)
(* arithmetic (ContributionCalculator), the validation (InputValidator)    *)
(* and the entry point RetirementCalculator.calculate.                     *)
(*                                                                         *)
(* Every method is a pure function of its arguments and of the             *)
(* initialValues the object was constructed with, so a behaviour is one    *)
(* call: Init constructs the object and draws the call's arguments, and    *)
(* the action named after the method computes its result.  calculate takes *)
(* three steps (validation, projection, duration), so that the order of    *)
(* its calls is part of the behaviour; pc is its position, errors and      *)
(* results are its two local objects, and `called` is the set of methods   *)
(* the call has invoked so far; lumpSum is the savings calculate passes on *)
(* to calculateSavingsDuration.  A RetirementCalculator can be asked to    *)
(* calculate again: earlierCalls counts the calls the instance has         *)
(* completed before the current one.                                       *)
(*                                                                         *)
(* JavaScript numbers are modelled as exact rationals <<n, d>> in lowest   *)
(* terms with d > 0, extended with <<1, 0>> (Infinity), <<-1, 0>>          *)
(* (-Infinity) and <<0, 0>> (NaN).  Negative zero is not distinguished     *)
(* from zero.  Years and series indexes are integers.                      *)
(***************************************************************************)
EXTENDS Integers, Sequences, FiniteSets, TLC

VARIABLES pc, call, initialValues, result, called, errors, results, lumpSum, earlierCalls

vars ==
  <<pc, call, initialValues, result, called, errors, results, lumpSum, earlierCalls>>

(***************************************************************************)
(* Bounds of the model.                                                    *)
(***************************************************************************)
MaxYears == 5
MaxIndex == 4
MaxWorkingYears == 3
MaxAge == 8
MaxEarlierCalls == 2

(***************************************************************************)
(* Number arithmetic.                                                      *)
(***************************************************************************)
Sign(n) == IF n > 0 THEN 1 ELSE IF n < 0 THEN -1 ELSE 0

Abs(n) == IF n < 0 THEN -n ELSE n

RECURSIVE GCD(_, _)
GCD(a, b) == IF b = 0 THEN a ELSE GCD(b, a % b)

Norm(n, d) ==
  IF d = 0 THEN <<Sign(n), 0>>
  ELSE LET g == GCD(Abs(n), Abs(d))
       IN  <<Sign(d) * (n \div g), Sign(d) * (d \div g)>>

Num(i) == <<i, 1>>

NaN == <<0, 0>>

Infinity == <<1, 0>>

IsNaN(x) == x = NaN

IsFinite(x) == x[2] # 0

RNeg(a) == <<-a[1], a[2]>>

RMul(a, b) ==
  IF a[2] = 0 \/ b[2] = 0 THEN <<Sign(a[1]) * Sign(b[1]), 0>>
  ELSE LET g1 == GCD(Abs(a[1]), b[2])
           g2 == GCD(Abs(b[1]), a[2])
       IN  <<(a[1] \div g1) * (b[1] \div g2), (a[2] \div g2) * (b[2] \div g1)>>

RAdd(a, b) ==
  IF IsNaN(a) \/ IsNaN(b) THEN NaN
  ELSE IF a[2] = 0 /\ b[2] = 0 THEN (IF a = b THEN a ELSE NaN)
  ELSE IF a[2] = 0 THEN a
  ELSE IF b[2] = 0 THEN b
  ELSE LET g == GCD(a[2], b[2])
       IN  Norm(a[1] * (b[2] \div g) + b[1] * (a[2] \div g), (a[2] \div g) * b[2])

RSub(a, b) == RAdd(a, RNeg(b))

RInv(b) ==
  IF IsNaN(b) THEN NaN
  ELSE IF b[2] = 0 THEN Num(0)
  ELSE IF b[1] = 0 THEN Infinity
  ELSE Norm(b[2], b[1])

RDiv(a, b) == RMul(a, RInv(b))

RLt(a, b) ==
  /\ ~IsNaN(a)
  /\ ~IsNaN(b)
  /\ IF a[2] = 0 /\ b[2] = 0 THEN a[1] < b[1]
     ELSE IF a[2] = 0 THEN a[1] < 0
     ELSE IF b[2] = 0 THEN b[1] > 0
     ELSE LET g == GCD(a[2], b[2])
          IN  a[1] * (b[2] \div g) < b[1] * (a[2] \div g)

REq(a, b) == ~IsNaN(a) /\ ~IsNaN(b) /\ a = b

RLe(a, b) == RLt(a, b) \/ REq(a, b)

RGe(a, b) == RLe(b, a)

RMax(a, b) == IF IsNaN(a) \/ IsNaN(b) THEN NaN ELSE IF RLt(a, b) THEN b ELSE a

RMin(a, b) == IF IsNaN(a) \/ IsNaN(b) THEN NaN ELSE IF RLt(b, a) THEN b ELSE a

RAbs(a) == <<Abs(a[1]), a[2]>>

RECURSIVE RPow(_, _)
RPow(b, e) ==
  IF e = 0 THEN Num(1)
  ELSE IF e < 0 THEN RInv(RPow(b, -e))
  ELSE RMul(b, RPow(b, e - 1))

(***************************************************************************)
(* CalcUtilities.                                                          *)
(***************************************************************************)
safeDivide_dividesByZero(numerator, denominator) == RDiv(numerator, denominator)

safeDivide(numerator, denominator) ==
  IF REq(denominator, Num(0)) THEN Num(0) ELSE RDiv(numerator, denominator)

DefaultPrecision == 2

(* Math.round is the floor of the number plus one half, taken here on the
   fractional part; toFixed and parseFloat then leave the rounded number as
   it is. *)
precisionNumber_truncates(number) ==
  IF IsNaN(number) THEN Num(0)
  ELSE IF ~IsFinite(number) THEN number
  ELSE LET factor == 10 ^ DefaultPrecision
           whole == number[1] \div number[2]
           fraction == number[1] % number[2]
       IN  RAdd(Num(whole), Norm((fraction * factor) \div number[2], factor))

precisionNumber(number) ==
  IF IsNaN(number) THEN Num(0)
  ELSE IF ~IsFinite(number) THEN number
  ELSE LET factor == 10 ^ DefaultPrecision
           whole == number[1] \div number[2]
           fraction == number[1] % number[2]
       IN  RAdd(Num(whole),
                Norm((2 * fraction * factor + number[2]) \div (2 * number[2]), factor))

futureValue_rateAsFactor(p, r, y) == RMul(p, RPow(r, y))

futureValue(p, r, y) == RMul(p, RPow(RAdd(Num(1), r), y))

geometricSeries_excludesIndexA(a, r, n) ==
  IF REq(r, Num(1)) THEN Num(n - a + 1)
  ELSE LET totalSum == RDiv(RSub(RPow(r, n + 1), Num(1)), RSub(r, Num(1)))
           excludedSum == IF a > 0
                          THEN RDiv(RSub(RPow(r, a + 1), Num(1)), RSub(r, Num(1)))
                          ELSE Num(0)
       IN  RSub(totalSum, excludedSum)

geometricSeries_noConstantCase(a, r, n) ==
  LET totalSum == RDiv(RSub(RPow(r, n + 1), Num(1)), RSub(r, Num(1)))
      excludedSum == IF a > 0
                     THEN RDiv(RSub(RPow(r, a), Num(1)), RSub(r, Num(1)))
                     ELSE Num(0)
  IN  RSub(totalSum, excludedSum)

geometricSeries(a, r, n) ==
  IF REq(r, Num(1)) THEN Num(n - a + 1)
  ELSE LET totalSum == RDiv(RSub(RPow(r, n + 1), Num(1)), RSub(r, Num(1)))
           excludedSum == IF a > 0
                          THEN RDiv(RSub(RPow(r, a), Num(1)), RSub(r, Num(1)))
                          ELSE Num(0)
       IN  RSub(totalSum, excludedSum)

(***************************************************************************)
(* Math.log, Math.floor and Math.round on the duration.                    *)
(*                                                                         *)
(* The duration -log(arg) / log(base) is the real number d = log_B(X) with *)
(* B > 1 (B = base, X = 1 / arg when base > 1; B = 1 / base, X = arg when  *)
(* base < 1).  Its floor and its rounding to months are decided exactly by *)
(* comparing integer powers: c * d >= j  iff  X^c >= B^j.  The powers      *)
(* exceed the machine integers, so they are held as sequences of limbs,    *)
(* least significant first.                                                *)
(*                                                                         *)
(* IEEE-754 rounds each of log, division and multiplication, so the double *)
(* the code holds is d up to a relative error far below any gap between    *)
(* the values compared here: fpError -1, 0, 1 is the direction of that     *)
(* error (below, exact, above).  It changes a floor only where c * d is    *)
(* exactly an integer, and log(1) = 0 is exact.                            *)
(***************************************************************************)
LimbBase == 10 * 100

RECURSIVE BigOf(_)
BigOf(n) == IF n = 0 THEN <<>> ELSE <<n % LimbBase>> \o BigOf(n \div LimbBase)

(* Carry propagation over columns lo..hi of S: <<limbs, carry out>>. *)
RECURSIVE CarryRange(_, _, _, _)
CarryRange(S, lo, hi, carry) ==
  IF lo = hi
  THEN LET v == S[lo] + carry IN <<<<v % LimbBase>>, v \div LimbBase>>
  ELSE LET mid == (lo + hi) \div 2
           low == CarryRange(S, lo, mid, carry)
           high == CarryRange(S, mid + 1, hi, low[2])
       IN  <<low[1] \o high[1], high[2]>>

Carried(S) ==
  IF Len(S) = 0 THEN <<>>
  ELSE LET r == CarryRange(S, 1, Len(S), 0) IN r[1] \o BigOf(r[2])

(* Column k of the product: the sum of X[i] * Y[k + 1 - i] over lo <= i <= hi. *)
RECURSIVE ColumnSum(_, _, _, _, _)
ColumnSum(X, Y, k, lo, hi) ==
  IF lo > hi THEN 0
  ELSE IF lo = hi THEN X[lo] * Y[k + 1 - lo]
  ELSE LET mid == (lo + hi) \div 2
       IN  ColumnSum(X, Y, k, lo, mid) + ColumnSum(X, Y, k, mid + 1, hi)

BigMul(X, Y) ==
  IF Len(X) = 0 \/ Len(Y) = 0 THEN <<>>
  ELSE Carried([k \in 1..(Len(X) + Len(Y) - 1) |->
                  ColumnSum(X, Y, k,
                            IF k + 1 - Len(Y) > 1 THEN k + 1 - Len(Y) ELSE 1,
                            IF k < Len(X) THEN k ELSE Len(X))])

RECURSIVE BigPow(_, _)
BigPow(X, e) ==
  IF e = 0 THEN <<1>>
  ELSE IF e % 2 = 0 THEN LET h == BigPow(X, e \div 2) IN BigMul(h, h)
  ELSE BigMul(BigPow(X, e - 1), X)

(* -1, 0, 1 as limbs lo..hi of X are below, equal to, above those of Y. *)
RECURSIVE BigCmpRange(_, _, _, _)
BigCmpRange(X, Y, lo, hi) ==
  IF lo > hi THEN 0
  ELSE IF lo = hi THEN Sign(X[lo] - Y[lo])
  ELSE LET mid == (lo + hi) \div 2
           high == BigCmpRange(X, Y, mid + 1, hi)
       IN  IF high # 0 THEN high ELSE BigCmpRange(X, Y, lo, mid)

BigCmp(X, Y) ==
  IF Len(X) # Len(Y) THEN Sign(Len(X) - Len(Y))
  ELSE BigCmpRange(X, Y, 1, Len(X))

(* With L / R = X^c / B^j >= 1: the largest j' >= j with B^j' <= X^c, and
   whether B^j' = X^c. *)
RECURSIVE LogSearch(_, _, _, _, _)
LogSearch(L, R, Bn, Bd, j) ==
  LET L2 == BigMul(L, Bd)
      R2 == BigMul(R, Bn)
  IN  IF BigCmp(L2, R2) >= 0 THEN LogSearch(L2, R2, Bn, Bd, j + 1)
      ELSE <<j, BigCmp(L, R) = 0>>

(* floor(c * log_B(X)) of the double, for rationals B > 1 and X >= 1, given
   a lower bound from <= c * log_B(X). *)
FloorLog(B, X, c, from, fpError) ==
  LET at == LogSearch(BigMul(BigPow(BigOf(X[1]), c), BigPow(BigOf(B[2]), from)),
                      BigMul(BigPow(BigOf(X[2]), c), BigPow(BigOf(B[1]), from)),
                      BigOf(B[1]), BigOf(B[2]), from)
  IN  IF at[2] /\ fpError < 0 /\ X # Num(1) THEN at[1] - 1 ELSE at[1]

MonthsInYear == 12

LogDuration(base, arg, fpError) ==
  LET B == IF RLt(Num(1), base) THEN base ELSE RInv(base)
      X == IF RLt(Num(1), base) THEN RInv(arg) ELSE arg
      wholeYears == FloorLog(B, X, 1, 0, 0)
      years == FloorLog(B, X, 1, wholeYears, fpError)
      totalMonths ==
        (FloorLog(B, X, 2 * MonthsInYear, 2 * MonthsInYear * wholeYears, fpError) + 1) \div 2
  IN  [years |-> Num(years), months |-> Num(totalMonths % MonthsInYear)]

savingsPayoutDuration_noZeroDenominatorCheck(savings, withdrawal, interestRate, inflationRate, fpError) ==
  LET base == RDiv(RAdd(Num(1), interestRate), RAdd(Num(1), inflationRate))
      adjustedGrowth == RSub(base, Num(1))
      numerator == RMul(savings, adjustedGrowth)
      denominator == RMul(withdrawal, base)
      arg == RSub(Num(1), RDiv(numerator, denominator))
  IN  IF \/ RLe(base, Num(0))
         \/ REq(base, Num(1))
         \/ RGe(numerator, denominator)
      THEN [years |-> Num(0), months |-> Num(0)]
      ELSE IF IsNaN(base) \/ IsNaN(arg) \/ RLt(arg, Num(0))
      THEN [years |-> NaN, months |-> NaN]
      ELSE IF ~IsFinite(arg) \/ REq(arg, Num(0))
      THEN [years |-> IF RLt(arg, Num(1)) <=> RLt(Num(1), base)
                      THEN Infinity ELSE RNeg(Infinity),
            months |-> NaN]
      ELSE IF ~IsFinite(base)
      THEN [years |-> Num(0), months |-> Num(0)]
      ELSE LogDuration(base, arg, fpError)

savingsPayoutDuration(savings, withdrawal, interestRate, inflationRate, fpError) ==
  LET base == RDiv(RAdd(Num(1), interestRate), RAdd(Num(1), inflationRate))
      adjustedGrowth == RSub(base, Num(1))
      numerator == RMul(savings, adjustedGrowth)
      denominator == RMul(withdrawal, base)
      arg == RSub(Num(1), RDiv(numerator, denominator))
  IN  IF \/ REq(denominator, Num(0))
         \/ RLe(base, Num(0))
         \/ REq(base, Num(1))
         \/ RGe(numerator, denominator)
      THEN [years |-> Num(0), months |-> Num(0)]
      ELSE IF IsNaN(base) \/ IsNaN(arg) \/ RLt(arg, Num(0))
      THEN [years |-> NaN, months |-> NaN]
      ELSE IF ~IsFinite(arg) \/ REq(arg, Num(0))
      THEN [years |-> IF RLt(arg, Num(1)) <=> RLt(Num(1), base)
                      THEN Infinity ELSE RNeg(Infinity),
            months |-> NaN]
      ELSE IF ~IsFinite(base)
      THEN [years |-> Num(0), months |-> Num(0)]
      ELSE LogDuration(base, arg, fpError)

savingsPayout_fullTermFutureValue(p, r, y) ==
  RDiv(futureValue(p, r, y), geometricSeries(0, RAdd(Num(1), r), y - 1))

savingsPayout(p, r, y) ==
  RDiv(futureValue(p, r, y - 1), geometricSeries(0, RAdd(Num(1), r), y - 1))

(***************************************************************************)
(* SavingsCalculator.  iv is this.initialValues; a field left out of it is *)
(* Undefined and takes the default of the destructuring.                   *)
(***************************************************************************)
Undefined == <<>>

OrDefault(v, d) == IF v = Undefined THEN d ELSE v

DefaultAnnualIncomeIncreasePercent == Num(0)

DefaultAnnualRetirementSavingsReturnPercent == <<2, 25>>

calculateTotalSavings_seriesFromIndex0(iv, currentSavings, totalContributions, years) ==
  LET annualIncomeIncreasePercent ==
        OrDefault(iv.annualIncomeIncreasePercent, DefaultAnnualIncomeIncreasePercent)
      annualRetirementSavingsReturnPercent ==
        OrDefault(iv.annualRetirementSavingsReturnPercent,
                  DefaultAnnualRetirementSavingsReturnPercent)
      principalFutureValue ==
        futureValue(currentSavings, annualRetirementSavingsReturnPercent, years)
      adjustedRatio == RAdd(Num(1), annualRetirementSavingsReturnPercent)
      adjustedAnnualIncome == RAdd(Num(1), annualIncomeIncreasePercent)
      adjustedContributions ==
        IF RLt(Num(0), totalContributions)
        THEN RMul(totalContributions,
                  geometricSeries(0, RMul(adjustedRatio, adjustedAnnualIncome), years))
        ELSE Num(0)
  IN  RAdd(principalFutureValue, adjustedContributions)

calculateTotalSavings_principalAtCombinedRate(iv, currentSavings, totalContributions, years) ==
  LET annualIncomeIncreasePercent ==
        OrDefault(iv.annualIncomeIncreasePercent, DefaultAnnualIncomeIncreasePercent)
      annualRetirementSavingsReturnPercent ==
        OrDefault(iv.annualRetirementSavingsReturnPercent,
                  DefaultAnnualRetirementSavingsReturnPercent)
      adjustedRatio == RAdd(Num(1), annualRetirementSavingsReturnPercent)
      adjustedAnnualIncome == RAdd(Num(1), annualIncomeIncreasePercent)
      principalFutureValue ==
        RMul(currentSavings, RPow(RMul(adjustedRatio, adjustedAnnualIncome), years))
      adjustedContributions ==
        IF RLt(Num(0), totalContributions)
        THEN RMul(totalContributions,
                  geometricSeries(1, RMul(adjustedRatio, adjustedAnnualIncome), years))
        ELSE Num(0)
  IN  RAdd(principalFutureValue, adjustedContributions)

calculateTotalSavings(iv, currentSavings, totalContributions, years) ==
  LET annualIncomeIncreasePercent ==
        OrDefault(iv.annualIncomeIncreasePercent, DefaultAnnualIncomeIncreasePercent)
      annualRetirementSavingsReturnPercent ==
        OrDefault(iv.annualRetirementSavingsReturnPercent,
                  DefaultAnnualRetirementSavingsReturnPercent)
      principalFutureValue ==
        futureValue(currentSavings, annualRetirementSavingsReturnPercent, years)
      adjustedRatio == RAdd(Num(1), annualRetirementSavingsReturnPercent)
      adjustedAnnualIncome == RAdd(Num(1), annualIncomeIncreasePercent)
      adjustedContributions ==
        IF RLt(Num(0), totalContributions)
        THEN RMul(totalContributions,
                  geometricSeries(1, RMul(adjustedRatio, adjustedAnnualIncome), years))
        ELSE Num(0)
  IN  RAdd(principalFutureValue, adjustedContributions)

DefaultNormalRetirementAge == Num(65)

DefaultWithdrawalAge == Num(75)

getMaximumRetirementAge_minMaxSwapped(iv, retirementAge) ==
  LET normalRetirementAge == OrDefault(iv.normalRetirementAge, DefaultNormalRetirementAge)
      withdrawalAge == OrDefault(iv.withdrawalAge, DefaultWithdrawalAge)
  IN  RMax(withdrawalAge, RMin(normalRetirementAge, retirementAge))

getMaximumRetirementAge(iv, retirementAge) ==
  LET normalRetirementAge == OrDefault(iv.normalRetirementAge, DefaultNormalRetirementAge)
      withdrawalAge == OrDefault(iv.withdrawalAge, DefaultWithdrawalAge)
  IN  RMin(withdrawalAge, RMax(normalRetirementAge, retirementAge))

(* A whole number of years as the integer the kernel's powers take. *)
Years(x) == x[1]

DefaultCurrentSavings == Num(0)

calculateProjectedRetirementSavings_contributesInPhaseB(iv, input, totalContributions) ==
  LET currentSavings == OrDefault(input.currentSavings, DefaultCurrentSavings)
      workingYears == RSub(input.retirementAge, input.currentAge)
      workingSavings ==
        calculateTotalSavings(iv, currentSavings, totalContributions, Years(workingYears))
      nonWorkingYearsUntilRetirement ==
        RSub(getMaximumRetirementAge(iv, input.retirementAge),
             RAdd(input.currentAge, workingYears))
      nonWorkingSavings ==
        IF RLt(Num(0), nonWorkingYearsUntilRetirement)
        THEN calculateTotalSavings(iv, workingSavings, totalContributions,
                                   Years(nonWorkingYearsUntilRetirement))
        ELSE Num(0)
  IN  RMax(workingSavings, nonWorkingSavings)

calculateProjectedRetirementSavings_phaseBOnly(iv, input, totalContributions) ==
  LET currentSavings == OrDefault(input.currentSavings, DefaultCurrentSavings)
      workingYears == RSub(input.retirementAge, input.currentAge)
      workingSavings ==
        calculateTotalSavings(iv, currentSavings, totalContributions, Years(workingYears))
      nonWorkingYearsUntilRetirement ==
        RSub(getMaximumRetirementAge(iv, input.retirementAge),
             RAdd(input.currentAge, workingYears))
      nonWorkingSavings ==
        IF RLt(Num(0), nonWorkingYearsUntilRetirement)
        THEN calculateTotalSavings(iv, workingSavings, Num(0),
                                   Years(nonWorkingYearsUntilRetirement))
        ELSE Num(0)
  IN  nonWorkingSavings

calculateProjectedRetirementSavings(iv, input, totalContributions) ==
  LET currentSavings == OrDefault(input.currentSavings, DefaultCurrentSavings)
      workingYears == RSub(input.retirementAge, input.currentAge)
      workingSavings ==
        calculateTotalSavings(iv, currentSavings, totalContributions, Years(workingYears))
      nonWorkingYearsUntilRetirement ==
        RSub(getMaximumRetirementAge(iv, input.retirementAge),
             RAdd(input.currentAge, workingYears))
      nonWorkingSavings ==
        IF RLt(Num(0), nonWorkingYearsUntilRetirement)
        THEN calculateTotalSavings(iv, workingSavings, Num(0),
                                   Years(nonWorkingYearsUntilRetirement))
        ELSE Num(0)
  IN  RMax(workingSavings, nonWorkingSavings)

DefaultAnnualPostRetirementReturnPercent == <<1, 20>>

DefaultAnnualInflationPercent == <<3, 100>>

DefaultEndOfRetirementAge == Num(95)

DefaultMinAnnualRetirementIncomePercent == <<4, 5>>

(* calculateSavingsDuration: the object it returns, and with it, as the
   field `called`, the methods it invoked on the way. *)

calculateSavingsDuration_fallsBackOnEqual(iv, input, totalSavingsAtRetirement, fpError) ==
  LET annualIncomeIncreasePercent ==
        OrDefault(iv.annualIncomeIncreasePercent, DefaultAnnualIncomeIncreasePercent)
      annualPostRetirementReturnPercent ==
        OrDefault(iv.annualPostRetirementReturnPercent,
                  DefaultAnnualPostRetirementReturnPercent)
      annualInflationPercent ==
        OrDefault(iv.annualInflationPercent, DefaultAnnualInflationPercent)
      endOfRetirementAge == OrDefault(iv.endOfRetirementAge, DefaultEndOfRetirementAge)
      minAnnualRetirementIncomePercent ==
        OrDefault(iv.minAnnualRetirementIncomePercent,
                  DefaultMinAnnualRetirementIncomePercent)
      minAnnualRetirementIncome ==
        RMul(futureValue(input.annualIncome, annualIncomeIncreasePercent,
                         Years(RSub(input.retirementAge, input.currentAge))),
             RMax(Num(0), minAnnualRetirementIncomePercent))
      years == RSub(endOfRetirementAge, getMaximumRetirementAge(iv, input.retirementAge))
      evenlyProjectedYearlyIncome ==
        savingsPayout(totalSavingsAtRetirement,
                      RSub(annualPostRetirementReturnPercent, annualInflationPercent),
                      Years(years))
      duration ==
        savingsPayoutDuration(totalSavingsAtRetirement, minAnnualRetirementIncome,
                              annualPostRetirementReturnPercent, annualInflationPercent,
                              fpError)
  IN  IF RLe(evenlyProjectedYearlyIncome, minAnnualRetirementIncome)
      THEN duration @@
             [projectedMonthlyIncome |-> RDiv(minAnnualRetirementIncome, Num(MonthsInYear)),
              projectedYearlyIncome |-> minAnnualRetirementIncome,
              called |-> {"futureValue", "getMaximumRetirementAge", "savingsPayout",
                          "savingsPayoutDuration"}]
      ELSE [months |-> Num(0),
            projectedMonthlyIncome |-> RDiv(evenlyProjectedYearlyIncome, Num(MonthsInYear)),
            projectedYearlyIncome |-> evenlyProjectedYearlyIncome,
            years |-> years,
            called |-> {"futureValue", "getMaximumRetirementAge", "savingsPayout"}]

calculateSavingsDuration_keepsEvenIncome(iv, input, totalSavingsAtRetirement, fpError) ==
  LET annualIncomeIncreasePercent ==
        OrDefault(iv.annualIncomeIncreasePercent, DefaultAnnualIncomeIncreasePercent)
      annualPostRetirementReturnPercent ==
        OrDefault(iv.annualPostRetirementReturnPercent,
                  DefaultAnnualPostRetirementReturnPercent)
      annualInflationPercent ==
        OrDefault(iv.annualInflationPercent, DefaultAnnualInflationPercent)
      endOfRetirementAge == OrDefault(iv.endOfRetirementAge, DefaultEndOfRetirementAge)
      minAnnualRetirementIncomePercent ==
        OrDefault(iv.minAnnualRetirementIncomePercent,
                  DefaultMinAnnualRetirementIncomePercent)
      minAnnualRetirementIncome ==
        RMul(futureValue(input.annualIncome, annualIncomeIncreasePercent,
                         Years(RSub(input.retirementAge, input.currentAge))),
             RMax(Num(0), minAnnualRetirementIncomePercent))
      years == RSub(endOfRetirementAge, getMaximumRetirementAge(iv, input.retirementAge))
      evenlyProjectedYearlyIncome ==
        savingsPayout(totalSavingsAtRetirement,
                      RSub(annualPostRetirementReturnPercent, annualInflationPercent),
                      Years(years))
      duration ==
        savingsPayoutDuration(totalSavingsAtRetirement, minAnnualRetirementIncome,
                              annualPostRetirementReturnPercent, annualInflationPercent,
                              fpError)
  IN  IF RLt(evenlyProjectedYearlyIncome, minAnnualRetirementIncome)
      THEN duration @@
             [projectedMonthlyIncome |-> RDiv(evenlyProjectedYearlyIncome, Num(MonthsInYear)),
              projectedYearlyIncome |-> evenlyProjectedYearlyIncome,
              called |-> {"futureValue", "getMaximumRetirementAge", "savingsPayout",
                          "savingsPayoutDuration"}]
      ELSE [months |-> Num(0),
            projectedMonthlyIncome |-> RDiv(evenlyProjectedYearlyIncome, Num(MonthsInYear)),
            projectedYearlyIncome |-> evenlyProjectedYearlyIncome,
            years |-> years,
            called |-> {"futureValue", "getMaximumRetirementAge", "savingsPayout"}]

calculateSavingsDuration(iv, input, totalSavingsAtRetirement, fpError) ==
  LET annualIncomeIncreasePercent ==
        OrDefault(iv.annualIncomeIncreasePercent, DefaultAnnualIncomeIncreasePercent)
      annualPostRetirementReturnPercent ==
        OrDefault(iv.annualPostRetirementReturnPercent,
                  DefaultAnnualPostRetirementReturnPercent)
      annualInflationPercent ==
        OrDefault(iv.annualInflationPercent, DefaultAnnualInflationPercent)
      endOfRetirementAge == OrDefault(iv.endOfRetirementAge, DefaultEndOfRetirementAge)
      minAnnualRetirementIncomePercent ==
        OrDefault(iv.minAnnualRetirementIncomePercent,
                  DefaultMinAnnualRetirementIncomePercent)
      minAnnualRetirementIncome ==
        RMul(futureValue(input.annualIncome, annualIncomeIncreasePercent,
                         Years(RSub(input.retirementAge, input.currentAge))),
             RMax(Num(0), minAnnualRetirementIncomePercent))
      years == RSub(endOfRetirementAge, getMaximumRetirementAge(iv, input.retirementAge))
      evenlyProjectedYearlyIncome ==
        savingsPayout(totalSavingsAtRetirement,
                      RSub(annualPostRetirementReturnPercent, annualInflationPercent),
                      Years(years))
      duration ==
        savingsPayoutDuration(totalSavingsAtRetirement, minAnnualRetirementIncome,
                              annualPostRetirementReturnPercent, annualInflationPercent,
                              fpError)
  IN  IF RLt(evenlyProjectedYearlyIncome, minAnnualRetirementIncome)
      THEN duration @@
             [projectedMonthlyIncome |-> RDiv(minAnnualRetirementIncome, Num(MonthsInYear)),
              projectedYearlyIncome |-> minAnnualRetirementIncome,
              called |-> {"futureValue", "getMaximumRetirementAge", "savingsPayout",
                          "savingsPayoutDuration"}]
      ELSE [months |-> Num(0),
            projectedMonthlyIncome |-> RDiv(evenlyProjectedYearlyIncome, Num(MonthsInYear)),
            projectedYearlyIncome |-> evenlyProjectedYearlyIncome,
            years |-> years,
            called |-> {"futureValue", "getMaximumRetirementAge", "savingsPayout"}]

(***************************************************************************)
(* ContributionCalculator.  A field the input leaves out is Undefined and  *)
(* takes the default of the destructuring.                                 *)
(***************************************************************************)
PAY_PERIODS ==
  [annually |-> 1, biweekly |-> 26, monthly |-> 12, twiceMonthly |-> 24, weekly |-> 52]

calculateEmployerMatch(annualIncome, contribution, employerMatchPercent, employerMaxMatchPercent) ==
  RMin(RMul(annualIncome, employerMatchPercent),
       RMul(contribution, employerMaxMatchPercent))

calculateAnnualContribution(contributionDollar, contributionPercent, annualIncome, contributionFrequency) ==
  LET payPeriods == PAY_PERIODS[contributionFrequency]
      contributionFromPercent ==
        IF RLt(Num(0), contributionPercent)
        THEN RMul(annualIncome, contributionPercent) ELSE Num(0)
      contributionFromDollar ==
        IF RLt(Num(0), contributionDollar) THEN contributionDollar ELSE Num(0)
  IN  RMul(RMax(contributionFromPercent, contributionFromDollar), Num(payPeriods))

calculateTotalAnnualContribution_matchOnCombined(input) ==
  LET additionalContributionDollar == OrDefault(input.additionalContributionDollar, Num(0))
      additionalContributionPercent == OrDefault(input.additionalContributionPercent, Num(0))
      contributionDollar == OrDefault(input.contributionDollar, Num(0))
      contributionPercent == OrDefault(input.contributionPercent, Num(0))
      employerMatchPercent == OrDefault(input.employerMatchPercent, Num(0))
      employerMaxMatchPercent == OrDefault(input.employerMaxMatchPercent, Num(0))
      annualContribution ==
        calculateAnnualContribution(contributionDollar, contributionPercent,
                                    input.annualIncome, input.contributionFrequency)
      annualAdditionalContribution ==
        calculateAnnualContribution(additionalContributionDollar,
                                    additionalContributionPercent,
                                    input.annualIncome, input.contributionFrequency)
  IN  [annualAdditionalContribution |-> annualAdditionalContribution,
       annualAdditionalEmployerMatch |->
         calculateEmployerMatch(input.annualIncome,
                                RAdd(annualContribution, annualAdditionalContribution),
                                employerMatchPercent, employerMaxMatchPercent),
       annualContribution |-> annualContribution,
       annualEmployerMatch |->
         calculateEmployerMatch(input.annualIncome, annualContribution,
                                employerMatchPercent, employerMaxMatchPercent)]

calculateTotalAnnualContribution(input) ==
  LET additionalContributionDollar == OrDefault(input.additionalContributionDollar, Num(0))
      additionalContributionPercent == OrDefault(input.additionalContributionPercent, Num(0))
      contributionDollar == OrDefault(input.contributionDollar, Num(0))
      contributionPercent == OrDefault(input.contributionPercent, Num(0))
      employerMatchPercent == OrDefault(input.employerMatchPercent, Num(0))
      employerMaxMatchPercent == OrDefault(input.employerMaxMatchPercent, Num(0))
      annualContribution ==
        calculateAnnualContribution(contributionDollar, contributionPercent,
                                    input.annualIncome, input.contributionFrequency)
      annualAdditionalContribution ==
        calculateAnnualContribution(additionalContributionDollar,
                                    additionalContributionPercent,
                                    input.annualIncome, input.contributionFrequency)
  IN  [annualAdditionalContribution |-> annualAdditionalContribution,
       annualAdditionalEmployerMatch |->
         calculateEmployerMatch(input.annualIncome, annualAdditionalContribution,
                                employerMatchPercent, employerMaxMatchPercent),
       annualContribution |-> annualContribution,
       annualEmployerMatch |->
         calculateEmployerMatch(input.annualIncome, annualContribution,
                                employerMatchPercent, employerMaxMatchPercent)]

(***************************************************************************)
(* InputValidator.  An error message is a string made from a template; the *)
(* model keeps of the errors object its keys, and of the making of the     *)
(* messages whether it returns or throws.                                  *)
(***************************************************************************)
DefaultAnnualIncomeLimits == <<Num(1000), Num(10000000)>>

DefaultMinimumAge == Num(16)

(* A limit at or above the threshold is given the SI symbol of index
   floor(log(num) / log(1000)); the symbols end at index 6, and of the
   numbers of the model only Infinity and NaN are past it: upper-casing
   the missing symbol throws. *)
convertToNumberFriendlyFormat(num) ==
  IF RLt(num, Num(1000)) THEN "string"
  ELSE IF IsFinite(num) THEN "string"
  ELSE "TypeError"

(* JavaScript truthiness of an optional number. *)
Truthy(v) == v # Undefined /\ v # Num(0) /\ ~IsNaN(v)

getAnnualContributionLimit(iv, age) ==
  LET limits == iv.irsLimits
  IN  IF Truthy(limits.annualIRALimit) /\ Truthy(limits.catchUpIRAOver50)
      THEN RAdd(limits.annualIRALimit,
                IF RGe(age, Num(50)) THEN limits.catchUpIRAOver50 ELSE Num(0))
      ELSE IF /\ Truthy(limits.annual401kLimit)
              /\ Truthy(limits.catchUp401kOver50)
              /\ Truthy(limits.catchUp401k60_63)
      THEN RAdd(RAdd(limits.annual401kLimit,
                     IF RGe(age, Num(50)) THEN limits.catchUp401kOver50 ELSE Num(0)),
                IF RGe(age, Num(60)) /\ RLe(age, Num(63))
                THEN limits.catchUp401k60_63 ELSE Num(0))
      ELSE Infinity

createErrorMessages(iv, input) ==
  LET annualIncomeLimits == OrDefault(iv.annualIncomeLimits, DefaultAnnualIncomeLimits)
  IN  IF \/ convertToNumberFriendlyFormat(annualIncomeLimits[1]) = "TypeError"
         \/ convertToNumberFriendlyFormat(annualIncomeLimits[2]) = "TypeError"
      THEN "TypeError"
      ELSE "errorMessages"

(* validateInput: the keys it sets in errors. *)
validateInput_incomeLimitsInclusive(iv, input, currentYearsContribution, currentYearsAdditionalContribution, currentYearsEmployerMatch, currentYearsAdditionalEmployerMatch) ==
  LET annualIncomeLimits == OrDefault(iv.annualIncomeLimits, DefaultAnnualIncomeLimits)
      endOfRetirementAge == OrDefault(iv.endOfRetirementAge, DefaultEndOfRetirementAge)
      minimumAge == OrDefault(iv.minimumAge, DefaultMinimumAge)
      additionalContributionDollar == OrDefault(input.additionalContributionDollar, Num(0))
      additionalContributionPercent == OrDefault(input.additionalContributionPercent, Num(0))
      annualIncome == input.annualIncome
      contributionDollar == OrDefault(input.contributionDollar, Num(0))
      contributionPercent == OrDefault(input.contributionPercent, Num(0))
      currentAge == input.currentAge
      currentSavings == OrDefault(input.currentSavings, Num(0))
      employerMatchPercent == OrDefault(input.employerMatchPercent, Num(0))
      employerMaxMatchPercent == OrDefault(input.employerMaxMatchPercent, Num(0))
      retirementAge == input.retirementAge
      Key(condition, key) == IF condition THEN {key} ELSE {}
  IN  Key(RLt(getAnnualContributionLimit(iv, currentAge),
              RAdd(RAdd(RAdd(currentYearsContribution,
                             currentYearsAdditionalContribution),
                        currentYearsEmployerMatch),
                   currentYearsAdditionalEmployerMatch)),
          "annualContributionLimit")
      \cup Key(RLt(annualIncome,
                   RAdd(currentYearsAdditionalContribution, currentYearsContribution)),
               "contributionsOverAnnualIncome")
      \cup Key(RLt(additionalContributionDollar, Num(0)), "additionalContributionDollar")
      \cup Key(\/ RLt(additionalContributionPercent, Num(0))
               \/ RLt(Num(100), additionalContributionPercent),
               "additionalContributionPercent")
      \cup Key(\/ RLe(annualIncome, annualIncomeLimits[1])
               \/ RLe(annualIncomeLimits[2], annualIncome),
               "annualIncome")
      \cup Key(RLt(contributionDollar, Num(0)), "contributionDollar")
      \cup Key(RLt(contributionPercent, Num(0)) \/ RLt(Num(1), contributionPercent),
               "contributionPercent")
      \cup Key(RGe(currentAge, retirementAge), "retirementAge")
      \cup Key(RLt(currentAge, minimumAge) \/ RLt(retirementAge, currentAge),
               "currentAge")
      \cup Key(RLt(currentSavings, Num(0)), "currentSavings")
      \cup Key(RLt(employerMatchPercent, Num(0)) \/ RLt(Num(1), employerMatchPercent),
               "employerMatchPercent")
      \cup Key(\/ RLt(employerMaxMatchPercent, Num(0))
               \/ RLt(Num(1), employerMaxMatchPercent),
               "employerMaxMatchPercent")
      \cup Key(RLe(endOfRetirementAge, retirementAge), "endOfRetirementAge")
      \cup Key(RLe(retirementAge, currentAge), "retirementAge")

validateInput(iv, input, currentYearsContribution, currentYearsAdditionalContribution, currentYearsEmployerMatch, currentYearsAdditionalEmployerMatch) ==
  LET annualIncomeLimits == OrDefault(iv.annualIncomeLimits, DefaultAnnualIncomeLimits)
      endOfRetirementAge == OrDefault(iv.endOfRetirementAge, DefaultEndOfRetirementAge)
      minimumAge == OrDefault(iv.minimumAge, DefaultMinimumAge)
      additionalContributionDollar == OrDefault(input.additionalContributionDollar, Num(0))
      additionalContributionPercent == OrDefault(input.additionalContributionPercent, Num(0))
      annualIncome == input.annualIncome
      contributionDollar == OrDefault(input.contributionDollar, Num(0))
      contributionPercent == OrDefault(input.contributionPercent, Num(0))
      currentAge == input.currentAge
      currentSavings == OrDefault(input.currentSavings, Num(0))
      employerMatchPercent == OrDefault(input.employerMatchPercent, Num(0))
      employerMaxMatchPercent == OrDefault(input.employerMaxMatchPercent, Num(0))
      retirementAge == input.retirementAge
      Key(condition, key) == IF condition THEN {key} ELSE {}
  IN  Key(RLt(getAnnualContributionLimit(iv, currentAge),
              RAdd(RAdd(RAdd(currentYearsContribution,
                             currentYearsAdditionalContribution),
                        currentYearsEmployerMatch),
                   currentYearsAdditionalEmployerMatch)),
          "annualContributionLimit")
      \cup Key(RLt(annualIncome,
                   RAdd(currentYearsAdditionalContribution, currentYearsContribution)),
               "contributionsOverAnnualIncome")
      \cup Key(RLt(additionalContributionDollar, Num(0)), "additionalContributionDollar")
      \cup Key(\/ RLt(additionalContributionPercent, Num(0))
               \/ RLt(Num(100), additionalContributionPercent),
               "additionalContributionPercent")
      \cup Key(\/ RLt(annualIncome, annualIncomeLimits[1])
               \/ RLt(annualIncomeLimits[2], annualIncome),
               "annualIncome")
      \cup Key(RLt(contributionDollar, Num(0)), "contributionDollar")
      \cup Key(RLt(contributionPercent, Num(0)) \/ RLt(Num(1), contributionPercent),
               "contributionPercent")
      \cup Key(RGe(currentAge, retirementAge), "retirementAge")
      \cup Key(RLt(currentAge, minimumAge) \/ RLt(retirementAge, currentAge),
               "currentAge")
      \cup Key(RLt(currentSavings, Num(0)), "currentSavings")
      \cup Key(RLt(employerMatchPercent, Num(0)) \/ RLt(Num(1), employerMatchPercent),
               "employerMatchPercent")
      \cup Key(\/ RLt(employerMaxMatchPercent, Num(0))
               \/ RLt(Num(1), employerMaxMatchPercent),
               "employerMaxMatchPercent")
      \cup Key(RLe(endOfRetirementAge, retirementAge), "endOfRetirementAge")
      \cup Key(RLe(retirementAge, currentAge), "retirementAge")

(***************************************************************************)
(* The calls of a behaviour.                                               *)
(***************************************************************************)
Principals == {Num(0), Num(1), Num(60), Num(1000)}

Rates == {<<-1, 2>>, Num(0), <<1, 10>>, <<1, 4>>, <<1, 2>>, Num(1)}

Ratios == {<<-2, 1>>, <<-1, 2>>, <<1, 2>>, Num(1), <<11, 10>>, <<3, 2>>, Num(2), Num(3)}

(* An initialValues object that leaves every optional field out. *)
NoInitialValues ==
  [annualIncomeIncreasePercent |-> Undefined,
   annualRetirementSavingsReturnPercent |-> Undefined,
   annualPostRetirementReturnPercent |-> Undefined,
   annualInflationPercent |-> Undefined,
   minAnnualRetirementIncomePercent |-> Undefined,
   annualIncomeLimits |-> Undefined,
   minimumAge |-> Undefined,
   normalRetirementAge |-> Undefined,
   withdrawalAge |-> Undefined,
   endOfRetirementAge |-> Undefined,
   irsLimits |-> [annual401kLimit |-> Undefined, catchUp401kOver50 |-> Undefined,
                  catchUp401k60_63 |-> Undefined, annualIRALimit |-> Undefined,
                  catchUpIRAOver50 |-> Undefined]]

FutureValueCalls ==
  [fn : {"futureValue"}, p : Principals \cup {Num(-60)}, r : Rates, y : -MaxYears..MaxYears]

GeometricSeriesCalls ==
  [fn : {"geometricSeries"}, a : -1..MaxIndex, r : Ratios, n : -2..MaxIndex]

SavingsPayoutCalls ==
  [fn : {"savingsPayout"}, p : Principals, r : Rates, y : 0..MaxYears]

Numerators == {Num(-60), Num(0), Num(1), <<1, 3>>, Num(1000), Infinity, NaN}

Denominators == {Num(-2), Num(0), <<1, 4>>, Num(3), Infinity, NaN}

SafeDivideCalls ==
  [fn : {"safeDivide"}, numerator : Numerators, denominator : Denominators]

Savings == {Num(0), Num(60), Num(1000)}

Withdrawals == {Num(0), Num(32), Num(50), Num(100), Num(150), Num(300), Num(5000)}

InterestRates == {<<-3, 2>>, Num(-1), Num(0), <<1, 10>>, <<1, 4>>, <<1, 2>>}

InflationRates == {Num(0), <<1, 10>>, <<1, 4>>}

FpErrors == {-1, 0, 1}

(* The calls the documentation gives as examples. *)
DocumentedDurationCalls ==
  [fn : {"savingsPayoutDuration"}, savings : {Num(100000)},
   withdrawal : {Num(5000), Num(10000)},
   interestRate : {<<1, 20>>, <<3, 100>>}, inflationRate : {<<1, 50>>, <<3, 100>>}]

SavingsPayoutDurationCalls ==
  [fn : {"savingsPayoutDuration"}, savings : Savings, withdrawal : Withdrawals,
   interestRate : InterestRates, inflationRate : InflationRates]
    \cup DocumentedDurationCalls

KernelCalls ==
  FutureValueCalls \cup GeometricSeriesCalls \cup SavingsPayoutCalls
    \cup SavingsPayoutDurationCalls \cup SafeDivideCalls

Contributions == {Num(0), Num(1), Num(500)}

IncomeIncreases == {Undefined, Num(0), <<1, 9>>, <<-1, 9>>}

SavingsReturns == {Undefined, Num(0), <<1, 8>>, <<1, 2>>, Num(1)}

SavingsInitialValues ==
  {[NoInitialValues EXCEPT !.annualIncomeIncreasePercent = g,
                           !.annualRetirementSavingsReturnPercent = s] :
     g \in IncomeIncreases, s \in SavingsReturns}

Ages == {Num(a) : a \in (0..MaxAge) \cup {60, 65, 70, 75, 80}}

AgePolicies ==
  {[NoInitialValues EXCEPT !.normalRetirementAge = n, !.withdrawalAge = w] :
     n \in {Undefined, Num(3), Num(5), Num(7)}, w \in {Undefined, Num(5), Num(6)}}

GetMaximumRetirementAgeCalls ==
  [fn : {"getMaximumRetirementAge"}, retirementAge : Ages]

CalculateTotalSavingsCalls ==
  [fn : {"calculateTotalSavings"}, currentSavings : Principals,
   totalContributions : Contributions, years : 0..MaxWorkingYears]

(* Requested ages under a small age policy, and under the default one
   (65, 75), with at most MaxWorkingYears working years. *)
WorkingAgePairs(ages) ==
  {p \in ages \X ages : p[1] <= p[2] /\ p[2] - p[1] <= MaxWorkingYears}

SmallAgePairs == WorkingAgePairs(1..6)

DefaultPolicyAgePairs == WorkingAgePairs({63, 64, 65, 74, 76})

CurrentSavings == {Undefined, Num(0), Num(1000)}

ProjectionInputs(pairs) ==
  {[currentAge |-> Num(p[1]), retirementAge |-> Num(p[2]), currentSavings |-> cs] :
     p \in pairs, cs \in CurrentSavings}

ProjectionCalls(pairs) ==
  [fn : {"calculateProjectedRetirementSavings"}, input : ProjectionInputs(pairs),
   totalContributions : Contributions]

ProjectionReturns == {Num(0), <<1, 2>>, <<-1, 2>>, Num(1)}

ProjectionIncomeIncreases == {Undefined, Num(1)}

ProjectionRates ==
  {[NoInitialValues EXCEPT !.annualIncomeIncreasePercent = g,
                           !.annualRetirementSavingsReturnPercent = r] :
     g \in ProjectionIncomeIncreases, r \in ProjectionReturns}

SmallPolicyInitialValues ==
  {[iv EXCEPT !.normalRetirementAge = n, !.withdrawalAge = w] :
     iv \in ProjectionRates, n \in {Num(2), Num(4)}, w \in {Num(3), Num(5)}}

DurationIncomes == {Num(1000)}

(* <<currentAge, retirementAge>> with 2, 3 and 0 working years. *)
DurationAgePairs == {<<2, 4>>, <<3, 6>>, <<6, 6>>}

LumpSums == {Num(0), Num(1000), Num(5000)}

DurationInputs(pairs) ==
  {[currentAge |-> Num(p[1]), retirementAge |-> Num(p[2]), annualIncome |-> income] :
     p \in pairs, income \in DurationIncomes}

DurationCalls(pairs) ==
  [fn : {"calculateSavingsDuration"}, input : DurationInputs(pairs),
   totalSavingsAtRetirement : LumpSums]

(* Post-retirement return and inflation, as <<return, inflation>>. *)
PostRetirementRates ==
  {<<Num(0), Num(0)>>, <<<<1, 2>>, <<1, 4>>>>, <<Num(0), <<1, 4>>>>}

MinIncomePercents == {Undefined, <<-1, 2>>, Num(1)}

DurationRates ==
  {[NoInitialValues EXCEPT !.annualIncomeIncreasePercent = g,
                           !.annualPostRetirementReturnPercent = pr[1],
                           !.annualInflationPercent = pr[2],
                           !.minAnnualRetirementIncomePercent = m] :
     g \in ProjectionIncomeIncreases, pr \in PostRetirementRates, m \in MinIncomePercents}

SmallHorizonInitialValues ==
  {[iv EXCEPT !.normalRetirementAge = Num(4), !.withdrawalAge = Num(5),
              !.endOfRetirementAge = e] :
     iv \in DurationRates, e \in {Num(3), Num(6), Num(8)}}

(* The default rates (0.05 after retirement, 0.03 inflation) and the
   default age policy, with a horizon of a few years. *)
DefaultRateInitialValues ==
  {[NoInitialValues EXCEPT !.endOfRetirementAge = Num(68)]}

(* Every default but a post-retirement return equal to the inflation. *)
DefaultHorizonInitialValues ==
  {[NoInitialValues EXCEPT !.annualPostRetirementReturnPercent = <<3, 100>>]}

(* The rates of the calculate calls: 1/2 before and after retirement and
   an inflation of 1/4; everything else is left to its default but the end
   of retirement, a few years past the default normal retirement age. *)
CalculateRates ==
  [NoInitialValues EXCEPT !.annualRetirementSavingsReturnPercent = <<1, 2>>,
                          !.annualPostRetirementReturnPercent = <<1, 2>>,
                          !.annualInflationPercent = <<1, 4>>,
                          !.endOfRetirementAge = Num(68)]

Small401kLimits ==
  [annual401kLimit |-> Num(2000), catchUp401kOver50 |-> Num(500),
   catchUp401k60_63 |-> Num(250), annualIRALimit |-> Undefined,
   catchUpIRAOver50 |-> Undefined]

SmallIRALimits ==
  [annual401kLimit |-> Undefined, catchUp401kOver50 |-> Undefined,
   catchUp401k60_63 |-> Undefined, annualIRALimit |-> Num(100),
   catchUpIRAOver50 |-> Num(20)]

(* IRS limits with a base limit and a catch-up amount left out or zero. *)
PartialLimits ==
  {[Small401kLimits EXCEPT !.annual401kLimit = Num(100), !.catchUp401kOver50 = Num(20),
                           !.catchUp401k60_63 = Undefined],
   [Small401kLimits EXCEPT !.annual401kLimit = Num(100), !.catchUp401kOver50 = Num(0),
                           !.catchUp401k60_63 = Num(10)],
   [Small401kLimits EXCEPT !.annual401kLimit = Num(100), !.catchUp401kOver50 = Num(20),
                           !.catchUp401k60_63 = Num(10)],
   [SmallIRALimits EXCEPT !.catchUpIRAOver50 = Undefined],
   [SmallIRALimits EXCEPT !.catchUpIRAOver50 = Num(0)]}

PartialLimitInitialValues ==
  {[CalculateRates EXCEPT !.irsLimits = limits] : limits \in PartialLimits}

ValidationInitialValues ==
  {CalculateRates,
   [CalculateRates EXCEPT !.annualIncomeLimits = <<Num(1000), Num(2000)>>,
                          !.irsLimits = Small401kLimits],
   [CalculateRates EXCEPT !.minimumAge = Num(64), !.irsLimits = SmallIRALimits]}

HorizonInitialValues ==
  {[CalculateRates EXCEPT !.endOfRetirementAge = e] : e \in {Num(64), Num(65), Num(68)}}

(* Income limits with no upper end. *)
UnboundedIncomeInitialValues ==
  {[CalculateRates EXCEPT !.annualIncomeLimits = <<Num(1000), Infinity>>]}

(* An input that passes validation under every initialValues above but the
   one that raises the minimum age. *)
PlainInput ==
  [annualIncome |-> Num(1000), currentAge |-> Num(63), retirementAge |-> Num(65),
   currentSavings |-> Num(1000), contributionDollar |-> Num(100),
   contributionPercent |-> Undefined, additionalContributionDollar |-> Undefined,
   additionalContributionPercent |-> Undefined, employerMatchPercent |-> <<1, 2>>,
   employerMaxMatchPercent |-> <<1, 2>>, contributionFrequency |-> "annually"]

(* The plain input with one field changed, mostly to a value validation
   rejects, and with all of them changed. *)
OtherFields ==
  {PlainInput,
   [PlainInput EXCEPT !.currentAge = Num(15)],
   [PlainInput EXCEPT !.currentAge = Num(64)],
   [PlainInput EXCEPT !.currentAge = Num(65)],
   [PlainInput EXCEPT !.currentAge = Num(66)],
   [PlainInput EXCEPT !.retirementAge = Num(68)],
   [PlainInput EXCEPT !.currentSavings = Num(-1)],
   [PlainInput EXCEPT !.contributionDollar = Num(-1)],
   [PlainInput EXCEPT !.contributionPercent = <<1, 20>>],
   [PlainInput EXCEPT !.contributionPercent = Num(2)],
   [PlainInput EXCEPT !.contributionPercent = <<-1, 20>>],
   [PlainInput EXCEPT !.additionalContributionDollar = Num(10)],
   [PlainInput EXCEPT !.additionalContributionDollar = Num(-1)],
   [PlainInput EXCEPT !.additionalContributionPercent = <<1, 100>>],
   [PlainInput EXCEPT !.additionalContributionPercent = Num(-1)],
   [PlainInput EXCEPT !.additionalContributionPercent = Num(101)],
   [PlainInput EXCEPT !.employerMatchPercent = Num(2)],
   [PlainInput EXCEPT !.employerMatchPercent = <<-1, 2>>],
   [PlainInput EXCEPT !.employerMaxMatchPercent = Num(2)],
   [PlainInput EXCEPT !.employerMaxMatchPercent = <<-1, 2>>],
   [PlainInput EXCEPT !.contributionFrequency = "biweekly"],
   [PlainInput EXCEPT !.contributionFrequency = "biweekly",
                      !.contributionDollar = Num(10)],
   [PlainInput EXCEPT !.currentAge = Num(66), !.retirementAge = Num(68),
                      !.currentSavings = Num(-1), !.contributionDollar = Num(-1),
                      !.contributionPercent = Num(2),
                      !.additionalContributionDollar = Num(-1),
                      !.additionalContributionPercent = Num(-1),
                      !.employerMatchPercent = Num(2),
                      !.employerMaxMatchPercent = Num(2)]}

ValidationIncomes == {Num(999), Num(1000), Num(2000), Num(2001), Num(10000001)}

ValidationInputs ==
  {[other EXCEPT !.annualIncome = income] :
     other \in OtherFields, income \in ValidationIncomes}

(* Inputs that differ in what passes validation. *)
AcceptableInputs ==
  {[annualIncome |-> income, currentAge |-> Num(p[1]), retirementAge |-> Num(p[2]),
    currentSavings |-> cs, contributionDollar |-> cd, contributionPercent |-> Undefined,
    additionalContributionDollar |-> ad, additionalContributionPercent |-> Undefined,
    employerMatchPercent |-> <<1, 2>>, employerMaxMatchPercent |-> <<1, 2>>,
    contributionFrequency |-> f] :
     income \in {Num(999), Num(1000)},
     p \in {<<61, 62>>, <<63, 65>>, <<64, 67>>},
     cs \in {Undefined, <<1, 1000>>, Num(1000)},
     cd \in {Undefined, Num(10)},
     ad \in {Undefined, Num(10)},
     f \in {"annually", "biweekly"}}

CalculateCalls(inputs) == [fn : {"calculate"}, input : inputs]

(* The inputs of a later call on the same instance: accepted without and
   with an additional contribution, accepted at other ages, and rejected. *)
LaterInputs ==
  {PlainInput,
   [PlainInput EXCEPT !.additionalContributionDollar = Num(10)],
   [PlainInput EXCEPT !.currentAge = Num(61), !.retirementAge = Num(62),
                      !.currentSavings = Undefined],
   [PlainInput EXCEPT !.annualIncome = Num(999), !.currentSavings = Num(-1)]}

(* Inputs of the contribution arithmetic alone: every frequency, percent
   and dollar contributions left out, zero, negative or positive, and an
   employer match where either bound can be the smaller one. *)
ContributionInputs ==
  [annualIncome : {Num(1000)}, currentAge : {Num(63)}, retirementAge : {Num(65)},
   currentSavings : {Undefined},
   contributionDollar : {Undefined, Num(0), Num(100)},
   contributionPercent : {Undefined, Num(0), <<1, 20>>, <<-1, 20>>},
   additionalContributionDollar : {Undefined, Num(10)},
   additionalContributionPercent : {Undefined, <<1, 100>>},
   employerMatchPercent : {Undefined, Num(0), <<1, 20>>},
   employerMaxMatchPercent : {Undefined, <<1, 2>>, Num(2)},
   contributionFrequency : DOMAIN PAY_PERIODS]

CalculateTotalAnnualContributionCalls ==
  [fn : {"calculateTotalAnnualContribution"}, input : ContributionInputs]

NoResults ==
  [projectedMonthlyIncome |-> Num(0),
   projectedYearlyIncome |-> Num(0),
   savingsDuration |-> [years |-> Num(0), months |-> Num(0)],
   totalSavingsAtRetirement |-> Num(0),
   totalAdditionalSavingsAtRetirement |-> Num(0),
   totalSavingsDifferenceAtRetirement |-> Num(0),
   totalSavingsDifferencePercentageAtRetirement |-> Num(0)]

Init ==
  /\ pc = "ready"
  /\ result = Undefined
  /\ called = {}
  /\ errors = {}
  /\ results = NoResults
  /\ lumpSum = Undefined
  /\ earlierCalls = 0
  /\ \/ call \in KernelCalls /\ initialValues = NoInitialValues
     \/ call \in CalculateTotalSavingsCalls /\ initialValues \in SavingsInitialValues
     \/ call \in GetMaximumRetirementAgeCalls /\ initialValues \in AgePolicies
     \/ call \in ProjectionCalls(SmallAgePairs) /\ initialValues \in SmallPolicyInitialValues
     \/ call \in ProjectionCalls(DefaultPolicyAgePairs) /\ initialValues \in ProjectionRates
     \/ call \in DurationCalls(DurationAgePairs)
          /\ initialValues \in SmallHorizonInitialValues
     \/ call \in DurationCalls({<<63, 64>>, <<65, 66>>})
          /\ initialValues \in DefaultRateInitialValues
     \/ call \in DurationCalls(DefaultPolicyAgePairs)
          /\ initialValues \in DefaultHorizonInitialValues
     \/ call \in CalculateCalls(AcceptableInputs)
          /\ initialValues \in HorizonInitialValues \cup UnboundedIncomeInitialValues
     \/ call \in CalculateCalls(ValidationInputs)
          /\ initialValues \in ValidationInitialValues
     \/ call \in CalculateCalls(LaterInputs) /\ initialValues \in PartialLimitInitialValues
     \/ call \in CalculateTotalAnnualContributionCalls /\ initialValues = NoInitialValues

SafeDivide ==
  /\ pc = "ready"
  /\ call.fn = "safeDivide"
  /\ result' = safeDivide(call.numerator, call.denominator)
  /\ pc' = "done"
  /\ called' = {}
  /\ UNCHANGED <<call, initialValues, errors, results, lumpSum, earlierCalls>>

FutureValue ==
  /\ pc = "ready"
  /\ call.fn = "futureValue"
  /\ result' = futureValue(call.p, call.r, call.y)
  /\ pc' = "done"
  /\ called' = {}
  /\ UNCHANGED <<call, initialValues, errors, results, lumpSum, earlierCalls>>

GeometricSeries ==
  /\ pc = "ready"
  /\ call.fn = "geometricSeries"
  /\ result' = geometricSeries(call.a, call.r, call.n)
  /\ pc' = "done"
  /\ called' = {}
  /\ UNCHANGED <<call, initialValues, errors, results, lumpSum, earlierCalls>>

SavingsPayout ==
  /\ pc = "ready"
  /\ call.fn = "savingsPayout"
  /\ result' = savingsPayout(call.p, call.r, call.y)
  /\ pc' = "done"
  /\ called' = {"futureValue", "geometricSeries"}
  /\ UNCHANGED <<call, initialValues, errors, results, lumpSum, earlierCalls>>

SavingsPayoutDuration ==
  /\ pc = "ready"
  /\ call.fn = "savingsPayoutDuration"
  /\ \E fpError \in FpErrors :
       result' = savingsPayoutDuration(call.savings, call.withdrawal, call.interestRate,
                                       call.inflationRate, fpError)
  /\ pc' = "done"
  /\ called' = {}
  /\ UNCHANGED <<call, initialValues, errors, results, lumpSum, earlierCalls>>

CalculateTotalSavings ==
  /\ pc = "ready"
  /\ call.fn = "calculateTotalSavings"
  /\ result' = calculateTotalSavings(initialValues, call.currentSavings,
                                      call.totalContributions, call.years)
  /\ pc' = "done"
  /\ called' = {"futureValue"}
                \cup (IF RLt(Num(0), call.totalContributions)
                      THEN {"geometricSeries"} ELSE {})
  /\ UNCHANGED <<call, initialValues, errors, results, lumpSum, earlierCalls>>

GetMaximumRetirementAge ==
  /\ pc = "ready"
  /\ call.fn = "getMaximumRetirementAge"
  /\ result' = getMaximumRetirementAge(initialValues, call.retirementAge)
  /\ pc' = "done"
  /\ called' = {}
  /\ UNCHANGED <<call, initialValues, errors, results, lumpSum, earlierCalls>>

CalculateProjectedRetirementSavings ==
  /\ pc = "ready"
  /\ call.fn = "calculateProjectedRetirementSavings"
  /\ result' = calculateProjectedRetirementSavings(initialValues, call.input,
                                                    call.totalContributions)
  /\ pc' = "done"
  /\ called' = {"calculateTotalSavings", "getMaximumRetirementAge"}
  /\ UNCHANGED <<call, initialValues, errors, results, lumpSum, earlierCalls>>

CalculateSavingsDuration ==
  /\ pc = "ready"
  /\ call.fn = "calculateSavingsDuration"
  /\ \E fpError \in FpErrors :
       \E returned \in {calculateSavingsDuration(initialValues, call.input,
                                                 call.totalSavingsAtRetirement, fpError)} :
         /\ result' = [months |-> returned.months,
                       projectedMonthlyIncome |-> returned.projectedMonthlyIncome,
                       projectedYearlyIncome |-> returned.projectedYearlyIncome,
                       years |-> returned.years]
         /\ called' = returned.called
  /\ pc' = "done"
  /\ UNCHANGED <<call, initialValues, errors, results, lumpSum, earlierCalls>>

CalculateTotalAnnualContribution ==
  /\ pc = "ready"
  /\ call.fn = "calculateTotalAnnualContribution"
  /\ result' = calculateTotalAnnualContribution(call.input)
  /\ pc' = "done"
  /\ called' = {"calculateAnnualContribution", "calculateEmployerMatch"}
  /\ UNCHANGED <<call, initialValues, errors, results, lumpSum, earlierCalls>>

(***************************************************************************)
(* RetirementCalculator.calculate, in the three steps its calls into the   *)
(* validator and into the projection engine divide it into.                *)
(***************************************************************************)

(* Lines 57-80: the contributions, the error messages, the validation and
   the return of the errors it recorded. *)
CalculateValidateInput_continuesOnErrors ==
  /\ pc = "ready"
  /\ call.fn = "calculate"
  /\ LET contributions == calculateTotalAnnualContribution(call.input)
         recorded ==
           validateInput(initialValues, call.input,
                         precisionNumber(contributions.annualContribution),
                         precisionNumber(contributions.annualAdditionalContribution),
                         precisionNumber(contributions.annualEmployerMatch),
                         precisionNumber(contributions.annualAdditionalEmployerMatch))
     IN  IF createErrorMessages(initialValues, call.input) = "TypeError"
         THEN /\ pc' = "thrown"
              /\ result' = "TypeError"
              /\ errors' = errors
              /\ called' = {"calculateTotalAnnualContribution", "createErrorMessages"}
         ELSE /\ errors' = recorded
              /\ called' = {"calculateTotalAnnualContribution", "createErrorMessages",
                            "precisionNumber", "validateInput"}
              /\ pc' = "validated"
              /\ result' = result
  /\ UNCHANGED <<call, initialValues, results, lumpSum, earlierCalls>>

CalculateValidateInput ==
  /\ pc = "ready"
  /\ call.fn = "calculate"
  /\ LET contributions == calculateTotalAnnualContribution(call.input)
         recorded ==
           validateInput(initialValues, call.input,
                         precisionNumber(contributions.annualContribution),
                         precisionNumber(contributions.annualAdditionalContribution),
                         precisionNumber(contributions.annualEmployerMatch),
                         precisionNumber(contributions.annualAdditionalEmployerMatch))
     IN  IF createErrorMessages(initialValues, call.input) = "TypeError"
         THEN /\ pc' = "thrown"
              /\ result' = "TypeError"
              /\ errors' = errors
              /\ called' = {"calculateTotalAnnualContribution", "createErrorMessages"}
         ELSE /\ errors' = recorded
              /\ called' = {"calculateTotalAnnualContribution", "createErrorMessages",
                            "precisionNumber", "validateInput"}
              /\ IF recorded # {}
                 THEN pc' = "done" /\ result' = [errors |-> recorded]
                 ELSE pc' = "validated" /\ result' = result
  /\ UNCHANGED <<call, initialValues, results, lumpSum, earlierCalls>>

(* Lines 82-120: the savings at retirement without and with the additional
   contributions. *)
CalculateProjectedSavings_additionalForRegular ==
  /\ pc = "validated"
  /\ call.fn = "calculate"
  /\ LET contributions == calculateTotalAnnualContribution(call.input)
         totalSavingsAtRetirement ==
           precisionNumber(
             calculateProjectedRetirementSavings(
               initialValues, call.input,
               RAdd(contributions.annualAdditionalContribution,
                    contributions.annualAdditionalEmployerMatch)))
         totalAdditionalSavingsAtRetirement ==
           precisionNumber(
             calculateProjectedRetirementSavings(
               initialValues, call.input,
               RAdd(RAdd(RAdd(contributions.annualContribution,
                              contributions.annualAdditionalContribution),
                         contributions.annualEmployerMatch),
                    contributions.annualAdditionalEmployerMatch)))
     IN  results' =
           IF RLt(Num(0), contributions.annualAdditionalContribution)
           THEN [results EXCEPT
                   !.totalSavingsAtRetirement = totalSavingsAtRetirement,
                   !.totalAdditionalSavingsAtRetirement =
                     totalAdditionalSavingsAtRetirement,
                   !.totalSavingsDifferenceAtRetirement =
                     precisionNumber(RAbs(RSub(totalAdditionalSavingsAtRetirement,
                                               totalSavingsAtRetirement))),
                   !.totalSavingsDifferencePercentageAtRetirement =
                     precisionNumber(safeDivide(totalSavingsAtRetirement,
                                                totalAdditionalSavingsAtRetirement))]
           ELSE [results EXCEPT !.totalSavingsAtRetirement = totalSavingsAtRetirement]
  /\ called' = called \cup {"calculateProjectedRetirementSavings"}
  /\ pc' = "projected"
  /\ UNCHANGED <<call, initialValues, result, errors, lumpSum, earlierCalls>>

CalculateProjectedSavings_beforeValidation ==
  /\ pc = "ready"
  /\ call.fn = "calculate"
  /\ LET contributions == calculateTotalAnnualContribution(call.input)
         totalSavingsAtRetirement ==
           precisionNumber(
             calculateProjectedRetirementSavings(
               initialValues, call.input,
               RAdd(contributions.annualContribution, contributions.annualEmployerMatch)))
         totalAdditionalSavingsAtRetirement ==
           precisionNumber(
             calculateProjectedRetirementSavings(
               initialValues, call.input,
               RAdd(RAdd(RAdd(contributions.annualContribution,
                              contributions.annualAdditionalContribution),
                         contributions.annualEmployerMatch),
                    contributions.annualAdditionalEmployerMatch)))
     IN  results' =
           IF RLt(Num(0), contributions.annualAdditionalContribution)
           THEN [results EXCEPT
                   !.totalSavingsAtRetirement = totalSavingsAtRetirement,
                   !.totalAdditionalSavingsAtRetirement =
                     totalAdditionalSavingsAtRetirement,
                   !.totalSavingsDifferenceAtRetirement =
                     precisionNumber(RAbs(RSub(totalAdditionalSavingsAtRetirement,
                                               totalSavingsAtRetirement))),
                   !.totalSavingsDifferencePercentageAtRetirement =
                     precisionNumber(safeDivide(totalSavingsAtRetirement,
                                                totalAdditionalSavingsAtRetirement))]
           ELSE [results EXCEPT !.totalSavingsAtRetirement = totalSavingsAtRetirement]
  /\ called' = called \cup {"calculateProjectedRetirementSavings"}
  /\ pc' = "projected"
  /\ UNCHANGED <<call, initialValues, result, errors, lumpSum, earlierCalls>>

CalculateProjectedSavings ==
  /\ pc = "validated"
  /\ call.fn = "calculate"
  /\ LET contributions == calculateTotalAnnualContribution(call.input)
         totalSavingsAtRetirement ==
           precisionNumber(
             calculateProjectedRetirementSavings(
               initialValues, call.input,
               RAdd(contributions.annualContribution, contributions.annualEmployerMatch)))
         totalAdditionalSavingsAtRetirement ==
           precisionNumber(
             calculateProjectedRetirementSavings(
               initialValues, call.input,
               RAdd(RAdd(RAdd(contributions.annualContribution,
                              contributions.annualAdditionalContribution),
                         contributions.annualEmployerMatch),
                    contributions.annualAdditionalEmployerMatch)))
     IN  results' =
           IF RLt(Num(0), contributions.annualAdditionalContribution)
           THEN [results EXCEPT
                   !.totalSavingsAtRetirement = totalSavingsAtRetirement,
                   !.totalAdditionalSavingsAtRetirement =
                     totalAdditionalSavingsAtRetirement,
                   !.totalSavingsDifferenceAtRetirement =
                     precisionNumber(RAbs(RSub(totalAdditionalSavingsAtRetirement,
                                               totalSavingsAtRetirement))),
                   !.totalSavingsDifferencePercentageAtRetirement =
                     precisionNumber(safeDivide(totalSavingsAtRetirement,
                                                totalAdditionalSavingsAtRetirement))]
           ELSE [results EXCEPT !.totalSavingsAtRetirement = totalSavingsAtRetirement]
  /\ called' = called \cup {"calculateProjectedRetirementSavings"}
  /\ pc' = "projected"
  /\ UNCHANGED <<call, initialValues, result, errors, lumpSum, earlierCalls>>

(* Lines 122-140: the duration of the savings and the income, and the
   return of the results. *)
CalculateDuration ==
  /\ pc = "projected"
  /\ call.fn = "calculate"
  /\ lumpSum' = RMax(results.totalAdditionalSavingsAtRetirement,
                     results.totalSavingsAtRetirement)
  /\ \E fpError \in FpErrors :
       \E returned \in
            {calculateSavingsDuration(initialValues, call.input, lumpSum', fpError)} :
         /\ results' =
              [results EXCEPT
                 !.savingsDuration =
                   [years |-> returned.years, months |-> returned.months],
                 !.projectedMonthlyIncome =
                   precisionNumber(returned.projectedMonthlyIncome),
                 !.projectedYearlyIncome =
                   precisionNumber(returned.projectedYearlyIncome)]
         /\ result' = [results |-> results']
  /\ called' = called \cup {"calculateSavingsDuration"}
  /\ pc' = "done"
  /\ UNCHANGED <<call, initialValues, errors, earlierCalls>>

(* A further call of calculate on the same instance, once the earlier one
   has returned or thrown: errors and results are locals of the call (lines
   46-55), created anew; the instance keeps its initialValues. *)
CalculateAgain_keepsResults ==
  /\ call.fn = "calculate"
  /\ pc \in {"done", "thrown"}
  /\ earlierCalls < MaxEarlierCalls
  /\ call' \in CalculateCalls(LaterInputs)
  /\ pc' = "ready"
  /\ result' = Undefined
  /\ called' = {}
  /\ errors' = {}
  /\ results' = results
  /\ lumpSum' = Undefined
  /\ earlierCalls' = earlierCalls + 1
  /\ UNCHANGED initialValues

CalculateAgain ==
  /\ call.fn = "calculate"
  /\ pc \in {"done", "thrown"}
  /\ earlierCalls < MaxEarlierCalls
  /\ call' \in CalculateCalls(LaterInputs)
  /\ pc' = "ready"
  /\ result' = Undefined
  /\ called' = {}
  /\ errors' = {}
  /\ results' = NoResults
  /\ lumpSum' = Undefined
  /\ earlierCalls' = earlierCalls + 1
  /\ UNCHANGED initialValues

Next ==
  \/ SafeDivide
  \/ FutureValue
  \/ GeometricSeries
  \/ SavingsPayout
  \/ SavingsPayoutDuration
  \/ CalculateTotalSavings
  \/ GetMaximumRetirementAge
  \/ CalculateProjectedRetirementSavings
  \/ CalculateSavingsDuration
  \/ CalculateTotalAnnualContribution
  \/ CalculateValidateInput
  \/ CalculateProjectedSavings
  \/ CalculateDuration
  \/ CalculateAgain

Spec == Init /\ [][Next]_vars

Returned(fn) == pc = "done" /\ call.fn = fn

(***************************************************************************)
(* Reference definitions the claims are stated against: explicit sums and  *)
(* an explicit year-by-year drawdown, independent of the closed forms.     *)
(***************************************************************************)
RECURSIVE SumOfPowers(_, _, _)
SumOfPowers(r, a, n) ==
  IF n < a THEN Num(0) ELSE RAdd(SumOfPowers(r, a, n - 1), RPow(r, n))

RECURSIVE BalanceAfterWithdrawal(_, _, _, _)
BalanceAfterWithdrawal(P, w, r, k) ==
  IF k = 1 THEN RSub(P, w)
  ELSE RSub(RMul(BalanceAfterWithdrawal(P, w, r, k - 1), RAdd(Num(1), r)), w)

RECURSIVE CompoundedYearByYear(_, _, _)
CompoundedYearByYear(p, r, y) ==
  IF y = 0 THEN p ELSE RMul(CompoundedYearByYear(p, r, y - 1), RAdd(Num(1), r))

SavingsReturnRate == OrDefault(initialValues.annualRetirementSavingsReturnPercent, <<2, 25>>)

IncomeGrowthRate == OrDefault(initialValues.annualIncomeIncreasePercent, Num(0))

(* C1: for P >= 0, 1 + r > 0 and integer y >= 1, savingsPayout(P, r, y) is
   the constant withdrawal that exactly exhausts P: withdrawing it y times,
   growing the remainder by (1 + r) after each withdrawal, leaves exactly 0
   after the y-th withdrawal and, for P > 0, a positive balance after every
   earlier one. *)
C1_PayoutExhaustsLumpSum ==
  (Returned("savingsPayout") /\ RLe(Num(0), call.p) /\ RLt(Num(-1), call.r) /\ call.y >= 1)
    => /\ BalanceAfterWithdrawal(call.p, result, call.r, call.y) = Num(0)
       /\ RLt(Num(0), call.p)
            => \A k \in 1..(call.y - 1) :
                 RLt(Num(0), BalanceAfterWithdrawal(call.p, result, call.r, k))

C1_Witness ==
  /\ Returned("savingsPayout")
  /\ call.p = Num(1000) /\ call.r = <<1, 10>> /\ call.y = 3
  /\ result = <<121000, 331>>

(* C2: for integers 0 <= a <= n and ratio r # 1, geometricSeries(a, r, n)
   is the sum of r^k for k = a..n inclusive. *)
C2_GeometricSeriesIsSumOfPowers ==
  (Returned("geometricSeries") /\ 0 <= call.a /\ call.a <= call.n /\ call.r # Num(1))
    => result = SumOfPowers(call.r, call.a, call.n)

C2_Witness ==
  /\ Returned("geometricSeries")
  /\ call.a = 2 /\ call.r = Num(2) /\ call.n = 4
  /\ result = Num(28)

(* C3: when the ratio is exactly 1, geometricSeries(a, r, n) is n - a + 1
   for every a and n (a finite number: the closed form, which would divide
   by zero, is not evaluated). *)
C3_ConstantSeriesCount ==
  (Returned("geometricSeries") /\ call.r = Num(1))
    => result = Num(call.n - call.a + 1)

C3_Witness ==
  /\ Returned("geometricSeries")
  /\ call.r = Num(1) /\ call.a = 0 /\ call.n = 4
  /\ result = Num(5)

(* C4: decomposition identity: for a > 0, r # 1 and every n,
   geometricSeries(a, r, n) = geometricSeries(0, r, n) - geometricSeries(0, r, a - 1). *)
C4_DecompositionIdentity ==
  (Returned("geometricSeries") /\ call.a > 0 /\ call.r # Num(1))
    => result = RSub(geometricSeries(0, call.r, call.n),
                     geometricSeries(0, call.r, call.a - 1))

C4_Witness ==
  /\ Returned("geometricSeries")
  /\ call.a = 2 /\ call.r = Num(3) /\ call.n = 3
  /\ result = Num(36)
  /\ geometricSeries(0, call.r, call.n) = Num(40)
  /\ geometricSeries(0, call.r, call.a - 1) = Num(4)

(* C5: futureValue(p, 0, y) = p for every principal p and every number of
   years y, positive, zero or negative. *)
C5_ZeroRateNoGrowth ==
  (Returned("futureValue") /\ call.r = Num(0)) => result = call.p

C5_Witness ==
  /\ Returned("futureValue")
  /\ call.r = Num(0) /\ call.y = -3 /\ call.p = Num(1000)
  /\ result = Num(1000)

(***************************************************************************)
(* The feasibility gate and the duration stated from the inputs alone.     *)
(***************************************************************************)
Sentinel == [years |-> Num(0), months |-> Num(0)]

DurationBase(c) == RDiv(RAdd(Num(1), c.interestRate), RAdd(Num(1), c.inflationRate))

GateTrips(c, w) ==
  LET base == DurationBase(c)
  IN  \/ RMul(w, base) = Num(0)
      \/ RLe(base, Num(0))
      \/ base = Num(1)
      \/ RGe(RMul(c.savings, RSub(base, Num(1))), RMul(w, base))

(* B^j <= X^c for rationals B, X > 0 and integers j, c >= 0. *)
PowerLe(B, j, X, c) ==
  BigCmp(BigMul(BigPow(BigOf(B[1]), j), BigPow(BigOf(X[2]), c)),
         BigMul(BigPow(BigOf(X[1]), c), BigPow(BigOf(B[2]), j))) <= 0

(* r is d = -ln(1 - savings * (base - 1) / (w * base)) / ln(base) converted:
   r.years is floor(d) and r.months is round(12 * d) mod 12, each taken of a
   double within rounding error of d. *)
IsConvertedLogDuration(c, r) ==
  LET base == DurationBase(c)
      arg == RSub(Num(1), RDiv(RMul(c.savings, RSub(base, Num(1))),
                               RMul(c.withdrawal, base)))
      B == IF RLt(Num(1), base) THEN base ELSE RInv(base)
      X == IF RLt(Num(1), base) THEN RInv(arg) ELSE arg
      k == r.years[1]
  IN  /\ r.years[2] = 1 /\ r.months[2] = 1
      /\ k >= 0
      /\ r.months[1] \in 0..11
      /\ PowerLe(B, k, X, 1)
      /\ PowerLe(X, 1, B, k + 1)
      /\ \E m \in (12 * k)..(12 * k + 12) :
           /\ m % 12 = r.months[1]
           /\ m = 0 \/ PowerLe(B, 2 * m - 1, X, 24)
           /\ PowerLe(X, 24, B, 2 * m + 1)

TotalMonths(r) == RAdd(RMul(r.years, Num(12)), r.months)

(* C6: savingsPayoutDuration returns exactly {years: 0, months: 0} whenever
   withdrawal * base = 0, base <= 0, base = 1 or savings * (base - 1) >=
   withdrawal * base, with base = (1 + interestRate) / (1 + inflationRate);
   for every other input it returns the converted logarithmic duration. *)
C6_FeasibilityGate ==
  Returned("savingsPayoutDuration")
    => IF GateTrips(call, call.withdrawal)
       THEN result = Sentinel
       ELSE IsConvertedLogDuration(call, result)

C6_Witness ==
  /\ Returned("savingsPayoutDuration")
  /\ call.savings = Num(100000) /\ call.withdrawal = Num(5000)
  /\ call.interestRate = <<3, 100>> /\ call.inflationRate = <<3, 100>>
  /\ result = Sentinel

(* C7: monotonicity, for withdrawals w1 that pass the feasibility gate: for
   fixed savings and rates and withdrawals w1 < w2, the duration returned
   for w2, compared as years * 12 + months, is strictly smaller than the
   duration returned for w1, or the result for w2 is {years: 0, months: 0}. *)
C7_StrictlyDecreasingOrSentinel ==
  (Returned("savingsPayoutDuration") /\ ~GateTrips(call, call.withdrawal))
    => \A w2 \in Withdrawals : \A fpError \in FpErrors :
         RLt(call.withdrawal, w2)
           => LET r2 == savingsPayoutDuration(call.savings, w2, call.interestRate,
                                              call.inflationRate, fpError)
              IN  RLt(TotalMonths(r2), TotalMonths(result)) \/ r2 = Sentinel

(* C8: round trip: for P > 0, r > 0 and integer y >= 1,
   savingsPayoutDuration(P, savingsPayout(P, r, y), r, 0) returns
   {years: y, months: 0}. *)
C8_RoundTrip ==
  (Returned("savingsPayout") /\ RLt(Num(0), call.p) /\ RLt(Num(0), call.r) /\ call.y >= 1)
    => \A fpError \in FpErrors :
         savingsPayoutDuration(call.p, result, call.r, Num(0), fpError)
           = [years |-> Num(call.y), months |-> Num(0)]

(* C9: with totalContributions = 0, calculateTotalSavings(currentSavings, 0,
   years) is currentSavings compounded at the savings return rate for
   `years` years, whatever the income growth rate. *)
C9_ZeroContributionIsPureCompounding ==
  (Returned("calculateTotalSavings") /\ call.totalContributions = Num(0))
    => result = CompoundedYearByYear(call.currentSavings, SavingsReturnRate, call.years)

C9_Witness ==
  /\ Returned("calculateTotalSavings")
  /\ call.totalContributions = Num(0)
  /\ call.currentSavings = Num(1000) /\ call.years = 2
  /\ initialValues.annualRetirementSavingsReturnPercent = <<1, 2>>
  /\ initialValues.annualIncomeIncreasePercent = <<1, 9>>
  /\ result = Num(2250)

(* C10: for totalContributions > 0, calculateTotalSavings is the compounded
   current savings plus totalContributions times the sum of q^k for
   k = 1..years, with q = (1 + s) * (1 + g) the product of the savings
   return factor and the income growth factor. *)
C10_ContributionSeriesFromIndex1 ==
  (Returned("calculateTotalSavings") /\ RLt(Num(0), call.totalContributions))
    => result =
         RAdd(CompoundedYearByYear(call.currentSavings, SavingsReturnRate, call.years),
              RMul(call.totalContributions,
                   SumOfPowers(RMul(RAdd(Num(1), SavingsReturnRate),
                                    RAdd(Num(1), IncomeGrowthRate)),
                               1, call.years)))

C10_Witness ==
  /\ Returned("calculateTotalSavings")
  /\ call.totalContributions = Num(500)
  /\ call.currentSavings = Num(1000) /\ call.years = 2
  /\ initialValues.annualRetirementSavingsReturnPercent = <<1, 2>>
  /\ initialValues.annualIncomeIncreasePercent = <<1, 9>>
  /\ result = <<40250, 9>>

(***************************************************************************)
(* The age policy in force and the projection engine's claims.             *)
(***************************************************************************)
NormalRetirementAge == OrDefault(initialValues.normalRetirementAge, Num(65))

WithdrawalAge == OrDefault(initialValues.withdrawalAge, Num(75))

(* C11: getMaximumRetirementAge(a) is min(withdrawalAge, max(normalRetirementAge, a)):
   whenever normalRetirementAge <= withdrawalAge the result lies in
   [normalRetirementAge, withdrawalAge], equals a when a is inside that band,
   normalRetirementAge when a is below it and withdrawalAge when a is above
   it; with the band inverted the result is withdrawalAge. *)
C11_ClampsIntoPolicyBand ==
  Returned("getMaximumRetirementAge")
    => LET a == call.retirementAge
       IN  IF RLe(NormalRetirementAge, WithdrawalAge)
           THEN /\ RLe(NormalRetirementAge, result) /\ RLe(result, WithdrawalAge)
                /\ (RLe(NormalRetirementAge, a) /\ RLe(a, WithdrawalAge)) => result = a
                /\ RLt(a, NormalRetirementAge) => result = NormalRetirementAge
                /\ RLt(WithdrawalAge, a) => result = WithdrawalAge
           ELSE result = WithdrawalAge

C11_Witness ==
  /\ Returned("getMaximumRetirementAge")
  /\ initialValues.normalRetirementAge = Undefined
  /\ initialValues.withdrawalAge = Undefined
  /\ call.retirementAge = Num(60)
  /\ result = Num(65)

(* The projection's two phases, stated from the call alone: the balance
   after the working years, and that balance grown without contributions
   over the years left to the effective retirement age. *)
EffectiveRetirementAge(a) ==
  IF RLt(a, NormalRetirementAge)
  THEN (IF RLt(WithdrawalAge, NormalRetirementAge) THEN WithdrawalAge
        ELSE NormalRetirementAge)
  ELSE IF RLt(WithdrawalAge, a) THEN WithdrawalAge ELSE a

StartingBalance == OrDefault(call.input.currentSavings, Num(0))

WorkingYears == Years(RSub(call.input.retirementAge, call.input.currentAge))

RemainingYears ==
  Years(RSub(EffectiveRetirementAge(call.input.retirementAge), call.input.retirementAge))

PhaseA ==
  RAdd(CompoundedYearByYear(StartingBalance, SavingsReturnRate, WorkingYears),
       RMul(call.totalContributions,
            SumOfPowers(RMul(RAdd(Num(1), SavingsReturnRate), RAdd(Num(1), IncomeGrowthRate)),
                        1, WorkingYears)))

(* C12 as claimed: with currentAge = retirementAge the projection returns
   currentSavings unchanged when the effective retirement age equals
   retirementAge, and otherwise currentSavings grown without contributions
   over (effective age - retirementAge) years. *)
C12_ZeroWorkingYears ==
  (Returned("calculateProjectedRetirementSavings") /\ WorkingYears = 0)
    => result = IF RemainingYears = 0 THEN StartingBalance
                ELSE RMul(StartingBalance, RPow(RAdd(Num(1), SavingsReturnRate), RemainingYears))

(* C12 as amended: with currentAge = retirementAge and currentSavings >= 0
   the projection returns currentSavings unchanged when the effective
   retirement age is at most retirementAge, and otherwise the larger of
   currentSavings and currentSavings grown without contributions over
   (effective age - retirementAge) years, which is the grown value when the
   savings return rate is not negative; the contributions add nothing. *)
C12_ZeroWorkingYearsNeverShrinks ==
  (Returned("calculateProjectedRetirementSavings") /\ WorkingYears = 0)
    => LET grown == CompoundedYearByYear(StartingBalance, SavingsReturnRate, RemainingYears)
       IN  /\ RemainingYears <= 0 => result = StartingBalance
           /\ RemainingYears > 0 => result = RMax(StartingBalance, grown)
           /\ (RemainingYears > 0 /\ RLe(Num(0), SavingsReturnRate)) => result = grown

C12_Witness ==
  /\ Returned("calculateProjectedRetirementSavings")
  /\ call.input.currentAge = Num(2) /\ call.input.retirementAge = Num(2)
  /\ call.input.currentSavings = Num(1000)
  /\ call.totalContributions = Num(500)
  /\ initialValues.normalRetirementAge = Num(4) /\ initialValues.withdrawalAge = Num(5)
  /\ initialValues.annualRetirementSavingsReturnPercent = <<1, 2>>
  /\ result = Num(2250)

(* C13: the projection returns max(phaseA, phaseB), where phaseA is the
   balance after the working years with contributions and phaseB is phaseA
   grown with zero contributions over remainingYears = effective retirement
   age - retirementAge; when remainingYears <= 0 phase B contributes 0 and
   the result is phaseA; the result is never below phaseA. *)
C13_MaxOfPhases ==
  Returned("calculateProjectedRetirementSavings")
    => LET phaseB == IF RemainingYears > 0
                     THEN CompoundedYearByYear(PhaseA, SavingsReturnRate, RemainingYears)
                     ELSE Num(0)
       IN  /\ result = RMax(PhaseA, phaseB)
           /\ RemainingYears <= 0 => result = PhaseA
           /\ RLe(PhaseA, result)

C13_Witness ==
  /\ Returned("calculateProjectedRetirementSavings")
  /\ call.input.currentAge = Num(1) /\ call.input.retirementAge = Num(3)
  /\ call.input.currentSavings = Num(1000)
  /\ call.totalContributions = Num(500)
  /\ initialValues.normalRetirementAge = Num(4) /\ initialValues.withdrawalAge = Num(5)
  /\ initialValues.annualRetirementSavingsReturnPercent = <<-1, 2>>
  /\ initialValues.annualIncomeIncreasePercent = Undefined
  /\ PhaseA = Num(625)
  /\ result = Num(625)

(* The income policy of calculateSavingsDuration, stated from the call. *)
PostRetirementReturn == OrDefault(initialValues.annualPostRetirementReturnPercent, <<1, 20>>)

Inflation == OrDefault(initialValues.annualInflationPercent, <<3, 100>>)

Horizon ==
  RSub(OrDefault(initialValues.endOfRetirementAge, Num(95)),
       EffectiveRetirementAge(call.input.retirementAge))

TargetMinimumIncome ==
  LET pct == OrDefault(initialValues.minAnnualRetirementIncomePercent, <<4, 5>>)
  IN  RMul(CompoundedYearByYear(call.input.annualIncome, IncomeGrowthRate, WorkingYears),
           IF RLt(pct, Num(0)) THEN Num(0) ELSE pct)

EvenPayout ==
  savingsPayout(call.totalSavingsAtRetirement, RSub(PostRetirementReturn, Inflation),
                Years(Horizon))

(* C14: in calculateSavingsDuration, whenever the even payout over the full
   horizon is at least the target minimum income, projectedYearlyIncome is
   that even payout, years is endOfRetirementAge - effective retirement age,
   months is 0, and savingsPayoutDuration is not called. *)
C14_EvenPayoutMeetsTarget ==
  (Returned("calculateSavingsDuration") /\ RGe(EvenPayout, TargetMinimumIncome))
    => /\ result.projectedYearlyIncome = EvenPayout
       /\ result.years = Horizon
       /\ result.months = Num(0)
       /\ "savingsPayoutDuration" \notin called

C14_Witness ==
  /\ Returned("calculateSavingsDuration")
  /\ call.totalSavingsAtRetirement = Num(5000)
  /\ call.input.annualIncome = Num(1000)
  /\ call.input.currentAge = Num(2) /\ call.input.retirementAge = Num(4)
  /\ initialValues.endOfRetirementAge = Num(6)
  /\ initialValues.annualPostRetirementReturnPercent = Num(0)
  /\ initialValues.annualInflationPercent = Num(0)
  /\ initialValues.annualIncomeIncreasePercent = Undefined
  /\ initialValues.minAnnualRetirementIncomePercent = Undefined
  /\ TargetMinimumIncome = Num(800)
  /\ result.projectedYearlyIncome = Num(2500)
  /\ result.years = Num(2) /\ result.months = Num(0)

(* C15: in calculateSavingsDuration, whenever the even payout over the full
   horizon is strictly below the target minimum income, projectedYearlyIncome
   is the target and {years, months} is savingsPayoutDuration(lumpSum,
   target, postRetirementReturnRate, inflationRate); in both branches
   projectedMonthlyIncome is projectedYearlyIncome / 12. *)
C15_FallsBackToTargetIncome ==
  Returned("calculateSavingsDuration")
    => /\ result.projectedMonthlyIncome = RDiv(result.projectedYearlyIncome, Num(12))
       /\ RLt(EvenPayout, TargetMinimumIncome)
            => /\ result.projectedYearlyIncome = TargetMinimumIncome
               /\ "savingsPayoutDuration" \in called
               /\ \E fpError \in FpErrors :
                    LET d == savingsPayoutDuration(call.totalSavingsAtRetirement,
                                                   TargetMinimumIncome, PostRetirementReturn,
                                                   Inflation, fpError)
                    IN  result.years = d.years /\ result.months = d.months

C15_Witness ==
  /\ Returned("calculateSavingsDuration")
  /\ call.totalSavingsAtRetirement = Num(1000)
  /\ call.input.annualIncome = Num(1000)
  /\ call.input.currentAge = Num(2) /\ call.input.retirementAge = Num(4)
  /\ initialValues.endOfRetirementAge = Num(8)
  /\ initialValues.annualPostRetirementReturnPercent = <<1, 2>>
  /\ initialValues.annualInflationPercent = <<1, 4>>
  /\ initialValues.annualIncomeIncreasePercent = Undefined
  /\ initialValues.minAnnualRetirementIncomePercent = Undefined
  /\ RLt(EvenPayout, Num(800))
  /\ result.projectedYearlyIncome = Num(800)
  /\ RLt(Num(0), TotalMonths(result))

(* calculate, stated from the call: what it was given and how far it got. *)
AnnualContribution == calculateTotalAnnualContribution(call.input).annualContribution

PassedValidation ==
  call.fn = "calculate" /\ "validateInput" \in called /\ errors = {}

ReturnedResults ==
  Returned("calculate") /\ PassedValidation /\ DOMAIN result = {"results"}

PositiveReturnAssumptions ==
  /\ RLt(Num(0), SavingsReturnRate)
  /\ RLt(Num(0), PostRetirementReturn)
  /\ RLt(Num(0), OrDefault(initialValues.minAnnualRetirementIncomePercent, <<4, 5>>))

Cent == <<1, 100>>

(* C16 as claimed: for every input that passes validation and has a
   positive annual contribution or positive currentSavings, under positive
   return assumptions and a positive income replacement ratio, calculate
   returns results with totalSavingsAtRetirement > 0 and
   projectedMonthlyIncome > 0. *)
C16_PositiveSavingsAndIncome ==
  (/\ Returned("calculate")
   /\ PassedValidation
   /\ PositiveReturnAssumptions
   /\ RLt(Num(0), AnnualContribution) \/ RLt(Num(0), StartingBalance))
    => /\ ReturnedResults
       /\ RLt(Num(0), result.results.totalSavingsAtRetirement)
       /\ RLt(Num(0), result.results.projectedMonthlyIncome)

(* C16 as amended: the results are rounded to the cent, so the amounts have
   to reach one.  For every input that passes validation and has an annual
   contribution or currentSavings of at least one cent, under positive
   return assumptions, a non-negative income increase and a target monthly
   income (the replacement ratio of the income at retirement, over 12) of at
   least one cent, calculate returns results with totalSavingsAtRetirement
   and projectedMonthlyIncome of at least one cent. *)
C16_AtLeastOneCent ==
  (/\ Returned("calculate")
   /\ PassedValidation
   /\ PositiveReturnAssumptions
   /\ RLe(Num(0), IncomeGrowthRate)
   /\ RLe(Cent, RDiv(TargetMinimumIncome, Num(12)))
   /\ RLe(Cent, AnnualContribution) \/ RLe(Cent, StartingBalance))
    => /\ ReturnedResults
       /\ RLe(Cent, result.results.totalSavingsAtRetirement)
       /\ RLe(Cent, result.results.projectedMonthlyIncome)

C16_Witness ==
  /\ ReturnedResults
  /\ call.input.currentSavings = Undefined
  /\ call.input.contributionDollar = Num(10)
  /\ call.input.additionalContributionDollar = Undefined
  /\ call.input.contributionFrequency = "annually"
  /\ call.input.currentAge = Num(63) /\ call.input.retirementAge = Num(65)
  /\ initialValues.endOfRetirementAge = Num(68)
  /\ AnnualContribution = Num(10)
  /\ result.results.totalSavingsAtRetirement = <<225, 4>>
  /\ result.results.projectedMonthlyIncome = <<6667, 100>>

(* C17: calculate returns exactly one of the two fields: errors, non-empty,
   and no results when validation recorded at least one error, and results
   and no errors otherwise; never both, never neither.  The errors recorded
   are returned in the step that records them. *)
C17_ErrorsOrResults ==
  call.fn = "calculate"
    => /\ errors # {} => /\ Returned("calculate")
                         /\ DOMAIN result = {"errors"}
                         /\ result.errors = errors
       /\ Returned("calculate")
            => /\ "validateInput" \in called
               /\ DOMAIN result \in {{"errors"}, {"results"}}
               /\ DOMAIN result = {"errors"} => result.errors # {}
               /\ errors = {} => DOMAIN result = {"results"} /\ result.results = results

C17_Witness ==
  /\ Returned("calculate")
  /\ call.input.annualIncome = Num(999)
  /\ call.input.currentAge = Num(63) /\ call.input.retirementAge = Num(65)
  /\ initialValues.endOfRetirementAge = Num(68)
  /\ initialValues.annualIncomeLimits = Undefined
  /\ errors = {"annualIncome"}
  /\ result = [errors |-> {"annualIncome"}]

ProjectionMethods == {"calculateProjectedRetirementSavings", "calculateSavingsDuration"}

(* C18: in every execution of calculate, validateInput has completed
   before any call of calculateProjectedRetirementSavings or
   calculateSavingsDuration, and once validation has recorded an error no
   such call is made. *)
C18_ValidationBeforeProjection ==
  /\ [](call.fn = "calculate"
          => /\ called \cap ProjectionMethods # {} => "validateInput" \in called
             /\ errors # {} => called \cap ProjectionMethods = {})
  /\ [][(call.fn = "calculate"
           /\ called' \cap ProjectionMethods # called \cap ProjectionMethods)
          => "validateInput" \in called /\ errors = {}]_vars

C18_Witness ==
  /\ Returned("calculate")
  /\ errors = {}
  /\ {"validateInput"} \cup ProjectionMethods \subseteq called
  /\ call.input.currentSavings = Num(1000)
  /\ result.results.totalSavingsAtRetirement = Num(2250)

(* C19: whenever annualIncome is below annualIncomeLimits[0] or above
   annualIncomeLimits[1] (by default 1000 and 10000000), validateInput sets
   errors.annualIncome and calculate returns errors with the key
   annualIncome, whatever the other fields are; for an annualIncome inside
   the limits the key is never set. *)
AnnualIncomeOutOfLimits ==
  LET annualIncomeLimits == OrDefault(initialValues.annualIncomeLimits,
                                      <<Num(1000), Num(10000000)>>)
  IN  \/ RLt(call.input.annualIncome, annualIncomeLimits[1])
      \/ RLt(annualIncomeLimits[2], call.input.annualIncome)

C19_AnnualIncomeLimits ==
  (call.fn = "calculate" /\ pc # "ready")
    => IF AnnualIncomeOutOfLimits
       THEN /\ "annualIncome" \in errors
            /\ Returned("calculate")
            /\ DOMAIN result = {"errors"}
            /\ "annualIncome" \in result.errors
       ELSE "annualIncome" \notin errors

(* C20: for every input validateInput accepts, under any initialValues, the
   horizon endOfRetirementAge - getMaximumRetirementAge(retirementAge) that
   calculateSavingsDuration passes to savingsPayout is at least 1. *)
C20_HorizonAtLeastOneYear ==
  PassedValidation => RLe(Num(1), Horizon)

(* The three divisions of C21: safeDivide(x, 0) = 0, savingsPayoutDuration
   with withdrawal * base = 0 returns {years: 0, months: 0}, and
   savingsPayout returns 0 when its geometric-series denominator is 0 (as
   for years = 0). *)
C21_SafeDivideSentinel ==
  (Returned("safeDivide") /\ REq(call.denominator, Num(0))) => result = Num(0)

C21_DurationSentinel ==
  (Returned("savingsPayoutDuration") /\ REq(RMul(call.withdrawal, DurationBase(call)), Num(0)))
    => result = Sentinel

C21_PayoutSentinel ==
  (/\ Returned("savingsPayout")
   /\ REq(geometricSeries(0, RAdd(Num(1), call.r), call.y - 1), Num(0)))
    => result = Num(0)

(* C21, all three divisions: a zero denominator yields the sentinel. *)
C21_ZeroDenominatorSentinel ==
  C21_SafeDivideSentinel /\ C21_DurationSentinel /\ C21_PayoutSentinel

(* The two projections of calculate before any rounding: without and with
   the additional contributions. *)
UnroundedProjections ==
  LET contributions == calculateTotalAnnualContribution(call.input)
      regular == RAdd(contributions.annualContribution, contributions.annualEmployerMatch)
      additional == RAdd(contributions.annualAdditionalContribution,
                         contributions.annualAdditionalEmployerMatch)
  IN  {calculateProjectedRetirementSavings(initialValues, call.input, regular),
       calculateProjectedRetirementSavings(initialValues, call.input,
                                           RAdd(regular, additional))}

(* C22: rounding to the display precision never touches a value that feeds
   a later calculation: the lump sum calculate passes to
   calculateSavingsDuration is the unrounded output of
   calculateProjectedRetirementSavings. *)
C22_LumpSumIsUnrounded ==
  ReturnedResults => lumpSum \in UnroundedProjections

(* What the code passes: the larger of the two rounded results. *)
C22_LumpSumIsRounded ==
  ReturnedResults
    => lumpSum = RMax(result.results.totalAdditionalSavingsAtRetirement,
                      result.results.totalSavingsAtRetirement)

(* The contribution chosen between the percent and the dollar form, before
   any scaling by the pay periods. *)
ChosenContribution ==
  LET contributionPercent == OrDefault(call.input.contributionPercent, Num(0))
      contributionDollar == OrDefault(call.input.contributionDollar, Num(0))
  IN  RMax(RMax(RMul(call.input.annualIncome, contributionPercent), contributionDollar),
           Num(0))

(* C23: the annual contribution calculateTotalAnnualContribution returns is
   max(annualIncome * contributionPercent, contributionDollar), whatever the
   contributionFrequency; with only a contributionPercent given it is
   annualIncome * contributionPercent for every frequency. *)
C23_AnnualContributionIgnoresFrequency ==
  Returned("calculateTotalAnnualContribution")
    => result.annualContribution = ChosenContribution

(* What the code returns: the chosen contribution times the pay periods of
   the frequency. *)
C23_AnnualContributionPerPayPeriod ==
  Returned("calculateTotalAnnualContribution")
    => result.annualContribution =
         RMul(ChosenContribution, Num(PAY_PERIODS[call.input.contributionFrequency]))

(* What a first call of calculate on a fresh instance with the given
   initialValues returns when createErrorMessages does not throw. *)
FirstCallOnFreshInstance(iv, input, fpError) ==
  LET contributions == calculateTotalAnnualContribution(input)
      recorded ==
        validateInput(iv, input,
                      precisionNumber(contributions.annualContribution),
                      precisionNumber(contributions.annualAdditionalContribution),
                      precisionNumber(contributions.annualEmployerMatch),
                      precisionNumber(contributions.annualAdditionalEmployerMatch))
      regular == RAdd(contributions.annualContribution, contributions.annualEmployerMatch)
      additional == RAdd(contributions.annualAdditionalContribution,
                         contributions.annualAdditionalEmployerMatch)
      totalSavingsAtRetirement ==
        precisionNumber(calculateProjectedRetirementSavings(iv, input, regular))
      totalAdditionalSavingsAtRetirement ==
        precisionNumber(calculateProjectedRetirementSavings(iv, input,
                                                            RAdd(regular, additional)))
      projected ==
        IF RLt(Num(0), contributions.annualAdditionalContribution)
        THEN [NoResults EXCEPT
                !.totalSavingsAtRetirement = totalSavingsAtRetirement,
                !.totalAdditionalSavingsAtRetirement = totalAdditionalSavingsAtRetirement,
                !.totalSavingsDifferenceAtRetirement =
                  precisionNumber(RAbs(RSub(totalAdditionalSavingsAtRetirement,
                                            totalSavingsAtRetirement))),
                !.totalSavingsDifferencePercentageAtRetirement =
                  precisionNumber(safeDivide(totalSavingsAtRetirement,
                                             totalAdditionalSavingsAtRetirement))]
        ELSE [NoResults EXCEPT !.totalSavingsAtRetirement = totalSavingsAtRetirement]
      returned ==
        calculateSavingsDuration(iv, input,
                                 RMax(projected.totalAdditionalSavingsAtRetirement,
                                      projected.totalSavingsAtRetirement),
                                 fpError)
  IN  IF recorded # {} THEN [errors |-> recorded]
      ELSE [results |->
              [projected EXCEPT
                 !.savingsDuration = [years |-> returned.years, months |-> returned.months],
                 !.projectedMonthlyIncome = precisionNumber(returned.projectedMonthlyIncome),
                 !.projectedYearlyIncome = precisionNumber(returned.projectedYearlyIncome)]]

SameAsFirstCall ==
  /\ (call.fn = "calculate" /\ pc = "thrown")
       => createErrorMessages(initialValues, call.input) = "TypeError"
  /\ Returned("calculate")
       => /\ createErrorMessages(initialValues, call.input) # "TypeError"
          /\ \E fpError \in FpErrors :
               result = FirstCallOnFreshInstance(initialValues, call.input, fpError)

(* A step of a call leaves the input and initialValues as they were; only
   the next call brings a new input. *)
LeavesArgumentsAlone ==
  /\ initialValues' = initialValues
  /\ (call.fn = "calculate" /\ pc \notin {"done", "thrown"}) => call' = call

(* C24: calculate is stateless and deterministic: after any sequence of
   earlier calls on the same instance, with accepted or rejected inputs, a
   call returns what a first call with the same input returns on a fresh
   instance with the same initialValues, and no call modifies its input or
   initialValues. *)
C24_Stateless ==
  [](call.fn = "calculate" => SameAsFirstCall) /\ [][LeavesArgumentsAlone]_vars

C24_Witness ==
  /\ Returned("calculate")
  /\ earlierCalls = MaxEarlierCalls
  /\ call.input = PlainInput
  /\ initialValues = CalculateRates
  /\ DOMAIN result = {"results"}
  /\ result.results.totalSavingsAtRetirement = <<5625, 2>>
  /\ result.results.totalAdditionalSavingsAtRetirement = Num(0)

AnnualAdditionalContribution ==
  calculateTotalAnnualContribution(call.input).annualAdditionalContribution

(* The difference of the returned savings with and without the additional
   contributions, relative to the savings without them; 0 for a divisor 0. *)
RelativeSavingsDifference ==
  LET with == result.results.totalAdditionalSavingsAtRetirement
      without == result.results.totalSavingsAtRetirement
  IN  IF REq(without, Num(0)) THEN Num(0) ELSE RDiv(RSub(with, without), without)

(* C25: totalSavingsDifferencePercentageAtRetirement is the difference of
   the savings with and without additional contributions divided by the
   savings without them (0 for a divisor 0), here exactly or rounded to
   cents, whenever annualAdditionalContribution > 0, and 0 when there is no
   additional contribution. *)
C25_DifferencePercentage ==
  ReturnedResults
    => IF RLt(Num(0), AnnualAdditionalContribution)
       THEN result.results.totalSavingsDifferencePercentageAtRetirement
              \in {RelativeSavingsDifference, precisionNumber(RelativeSavingsDifference)}
       ELSE result.results.totalSavingsDifferencePercentageAtRetirement = Num(0)

(* What the code returns: the savings without the additional contributions
   divided by the savings with them, rounded to cents. *)
C25_RatioOfSavings ==
  ReturnedResults
    => result.results.totalSavingsDifferencePercentageAtRetirement =
         IF RLt(Num(0), AnnualAdditionalContribution)
         THEN precisionNumber(safeDivide(result.results.totalSavingsAtRetirement,
                                         result.results.totalAdditionalSavingsAtRetirement))
         ELSE Num(0)

(* The two bounds of an employer match on a contribution. *)
IncomeBound ==
  RMul(call.input.annualIncome, OrDefault(call.input.employerMatchPercent, Num(0)))

ContributionBound(contribution) ==
  RMul(contribution, OrDefault(call.input.employerMaxMatchPercent, Num(0)))

IsEmployerMatchOn(match, contribution) ==
  /\ RLe(match, IncomeBound)
  /\ RLe(match, ContributionBound(contribution))
  /\ match \in {IncomeBound, ContributionBound(contribution)}
  /\ (\/ OrDefault(call.input.employerMatchPercent, Num(0)) = Num(0)
      \/ OrDefault(call.input.employerMaxMatchPercent, Num(0)) = Num(0)
      \/ contribution = Num(0))
       => match = Num(0)

(* C26: each employer match calculateTotalAnnualContribution returns is
   min(annualIncome * employerMatchPercent, contribution *
   employerMaxMatchPercent): it exceeds neither bound, is 0 when either
   percentage or the contribution is 0, and the match on the additional
   contribution is that of the additional contribution alone. *)
C26_EmployerMatch ==
  Returned("calculateTotalAnnualContribution")
    => /\ IsEmployerMatchOn(result.annualEmployerMatch, result.annualContribution)
       /\ IsEmployerMatchOn(result.annualAdditionalEmployerMatch,
                            result.annualAdditionalContribution)

C26_Witness ==
  /\ Returned("calculateTotalAnnualContribution")
  /\ call.input.contributionFrequency = "annually"
  /\ call.input.contributionDollar = Num(100)
  /\ call.input.additionalContributionDollar = Num(10)
  /\ call.input.employerMatchPercent = <<1, 20>>
  /\ call.input.employerMaxMatchPercent = Num(2)
  /\ result.annualEmployerMatch = Num(50)
  /\ result.annualAdditionalEmployerMatch = Num(20)

(* m is 12 * d rounded to the nearest integer (a tie either way), for the
   real duration d of the call c: m - 1/2 <= 12 * d <= m + 1/2. *)
IsDurationRoundedToMonths(c, m) ==
  LET base == DurationBase(c)
      arg == RSub(Num(1), RDiv(RMul(c.savings, RSub(base, Num(1))),
                               RMul(c.withdrawal, base)))
      B == IF RLt(Num(1), base) THEN base ELSE RInv(base)
      X == IF RLt(Num(1), base) THEN RInv(arg) ELSE arg
  IN  /\ m >= 0
      /\ m = 0 \/ PowerLe(B, 2 * m - 1, X, 24)
      /\ PowerLe(X, 24, B, 2 * m + 1)

(* C27: every result of savingsPayoutDuration that is not the sentinel, for
   a real duration d >= 0, is d rounded to the nearest month:
   years * 12 + months = round(d * 12), with 0 <= months <= 11. *)
C27_NearestMonth ==
  (/\ Returned("savingsPayoutDuration")
   /\ ~GateTrips(call, call.withdrawal)
   /\ result # Sentinel
   /\ IsFinite(result.years) /\ IsFinite(result.months))
    => /\ result.months[1] \in 0..11
       /\ IsDurationRoundedToMonths(call, 12 * result.years[1] + result.months[1])

(* calculateSavingsDuration took the branch that asks savingsPayoutDuration
   how long the target income can be paid. *)
FallbackTaken ==
  /\ Returned("calculateSavingsDuration")
  /\ RLt(EvenPayout, TargetMinimumIncome)
  /\ "savingsPayoutDuration" \in called

(* C28: whenever calculateSavingsDuration takes the fallback branch, with
   both growth factors positive (and a horizon of at least one year), the
   duration it reports is shorter than the horizon: years * 12 + months <
   12 * (endOfRetirementAge - effective retirement age). *)
C28_FallbackShorterThanHorizon ==
  (/\ FallbackTaken
   /\ RLt(Num(-1), PostRetirementReturn) /\ RLt(Num(-1), Inflation)
   /\ RLe(Num(1), Horizon))
    => RLt(TotalMonths(result), RMul(Num(12), Horizon))

(* The same for a post-retirement return that is at least the inflation,
   and an inflation that is not negative. *)
C28_ShorterWithRealReturn ==
  (/\ FallbackTaken
   /\ RLe(Num(0), Inflation) /\ RLe(Inflation, PostRetirementReturn)
   /\ RLe(Num(1), Horizon))
    => RLt(TotalMonths(result), RMul(Num(12), Horizon))

(* C29: whenever calculateSavingsDuration takes the fallback branch and the
   lump sum is at least one year of the target income
   (totalSavingsAtRetirement >= target > 0), the reported duration is at
   least one year, whatever the rates: a funded retirement is never reported
   as lasting 0 years 0 months.  Stated for horizons of at least one year. *)
C29_FundedLastsAYear ==
  (/\ FallbackTaken
   /\ RLe(Num(1), Horizon)
   /\ RLt(Num(0), TargetMinimumIncome)
   /\ RLe(TargetMinimumIncome, call.totalSavingsAtRetirement))
    => RLe(Num(1), result.years)

(* The same where the post-retirement return differs from the inflation and
   the target income exceeds what the lump sum earns in real terms. *)
C29_FundedLastsAYearWhenDrawnDown ==
  (/\ FallbackTaken
   /\ RLt(Num(0), TargetMinimumIncome)
   /\ RLe(TargetMinimumIncome, call.totalSavingsAtRetirement)
   /\ ~(result.years = Num(0) /\ result.months = Num(0)))
    => RLe(Num(1), result.years)

C28_RealReturnWitness ==
  /\ FallbackTaken
  /\ RLe(Num(0), Inflation) /\ RLe(Inflation, PostRetirementReturn)
  /\ RLe(Num(1), Horizon)
  /\ RLe(Num(1), result.years)

(* The four contributions validateInput adds up, as calculate passes them. *)
CurrentYearsContributions ==
  LET contributions == calculateTotalAnnualContribution(call.input)
  IN  RAdd(RAdd(precisionNumber(contributions.annualContribution),
                precisionNumber(contributions.annualAdditionalContribution)),
           RAdd(precisionNumber(contributions.annualEmployerMatch),
                precisionNumber(contributions.annualAdditionalEmployerMatch)))

IsPositiveLimit(v) == v # Undefined /\ IsFinite(v) /\ RLt(Num(0), v)

(* The configured base limit plus the catch-ups that apply at the age, an
   amount left out counting as 0; the IRA limit where both are configured. *)
ConfiguredLimit(limits, age) ==
  IF IsPositiveLimit(limits.annualIRALimit)
  THEN RAdd(limits.annualIRALimit,
            IF RGe(age, Num(50)) THEN OrDefault(limits.catchUpIRAOver50, Num(0))
            ELSE Num(0))
  ELSE RAdd(RAdd(limits.annual401kLimit,
                 IF RGe(age, Num(50)) THEN OrDefault(limits.catchUp401kOver50, Num(0))
                 ELSE Num(0)),
            IF RGe(age, Num(60)) /\ RLe(age, Num(63))
            THEN OrDefault(limits.catchUp401k60_63, Num(0)) ELSE Num(0))

LimitIsConfigured ==
  \/ IsPositiveLimit(initialValues.irsLimits.annualIRALimit)
  \/ IsPositiveLimit(initialValues.irsLimits.annual401kLimit)

(* C30: whenever annual401kLimit or annualIRALimit is configured with a
   positive value, getAnnualContributionLimit(age) is finite and is the base
   limit plus the catch-ups that apply at the age, and validateInput sets
   errors.annualContributionLimit for every total contribution above it,
   even when a catch-up amount is left out or 0. *)
C30_ConfiguredLimitIsEnforced ==
  (call.fn = "calculate" /\ "validateInput" \in called /\ LimitIsConfigured)
    => LET limit == getAnnualContributionLimit(initialValues, call.input.currentAge)
       IN  /\ IsFinite(limit)
           /\ limit = ConfiguredLimit(initialValues.irsLimits, call.input.currentAge)
           /\ RLt(limit, CurrentYearsContributions)
                => "annualContributionLimit" \in errors

(* The same where every catch-up amount of the configured account is a
   non-zero number. *)
C30_FullyConfiguredLimitIsEnforced ==
  (/\ call.fn = "calculate" /\ "validateInput" \in called /\ LimitIsConfigured
   /\ IsFinite(getAnnualContributionLimit(initialValues, call.input.currentAge)))
    => LET limit == getAnnualContributionLimit(initialValues, call.input.currentAge)
       IN  /\ limit = ConfiguredLimit(initialValues.irsLimits, call.input.currentAge)
           /\ RLt(limit, CurrentYearsContributions)
                => "annualContributionLimit" \in errors

C30_FullyConfiguredWitness ==
  /\ call.fn = "calculate" /\ "validateInput" \in called /\ LimitIsConfigured
  /\ IsFinite(getAnnualContributionLimit(initialValues, call.input.currentAge))
  /\ "annualContributionLimit" \in errors

====
